---- MODULE Spec2Model ----
(***************************************************************************)
(* Model of the AST -> ASR semantic analysis of LFortran                   *)
(* (src/lfortran/semantics/ast_to_asr.cpp): the implicit cast rules, the   *)
(* shared operator lowering, the symbol collector (Pass 1) and the body    *)
(* lowerer (Pass 2).                                                       *)
(***************************************************************************)
EXTENDS Integers, Sequences, FiniteSets, TLC

VARIABLES
    \* ---- operator lowering (ImplicitCastRules, CommonVisitorMethods) ----
    pc,               \* "start" before the visitor runs, "done" after
    with_assert,      \* TRUE: LFORTRAN_ASSERT is compiled in (debug build)
    left,             \* ASR::expr_t*& left  (rewritten by cast insertion)
    right,            \* ASR::expr_t*& right
    conversion_cand,  \* local of the visitor: "left" / "right" / "value"
    source_type,      \* local of the visitor, set by find_conversion_candidate
    dest_type,        \* local of the visitor, set by find_conversion_candidate
    looked_up,        \* the rule_map cell read by set_converted_value, or <<>>
    outcome,          \* "none" | "node" | "error" | "assert_failed" | "undefined"
    asr,              \* the node produced (ASR::asr_t*& asr)
    visitor,          \* the visitor that ran and the operator of its AST node
    operands,         \* the lowered operands of the AST node: <<x.m_left, x.m_right>>
    \* ---- the two passes over a translation unit ----
    status,           \* "running" | "error" (an exception left ast_to_asr) | "crashed" | "done"
    error,            \* the message of the exception thrown, or "none"
    pass,             \* 1: SymbolTableVisitor, 2: BodyVisitor
    symtab,           \* the SymbolTables allocated so far, indexed by their counter
    current_scope,    \* SymbolTable *current_scope
    frames,           \* the visitors that are in progress, innermost last
    ast,              \* the program units of the translation unit visited so far
    current_module_dependencies,  \* Vec<char*> current_module_dependencies
    dflt_access,      \* ASR::accessType dflt_access
    assgnd_access,    \* std::map<std::string, accessType> assgnd_access
    assgnd_presence,  \* std::map<std::string, presenceType> assgnd_presence
    current_procedure_args,       \* std::vector<std::string> current_procedure_args
    generic_procedures,           \* std::map<std::string, std::vector<std::string>>
    class_procedures, \* std::map<std::string, std::map<std::string, std::string>>
    dt_name,          \* std::string dt_name
    in_module,        \* bool in_module
    is_interface,     \* bool is_interface
    current_module,   \* BodyVisitor::current_module (a module name, or <<>>)
    tmp,              \* BodyVisitor::tmp
    last_op,          \* the visitor that ran last, with what it was given
    nodes             \* number of AST nodes visited so far, by class

castVars == <<pc, with_assert, left, right, conversion_cand, source_type,
              dest_type, looked_up, outcome, asr, visitor, operands>>

p1Vars == <<current_module_dependencies, dflt_access, assgnd_access, assgnd_presence,
            current_procedure_args, generic_procedures, class_procedures, dt_name,
            in_module, is_interface>>

symVars == <<status, error, pass, symtab, current_scope, frames, ast, p1Vars,
             current_module, tmp, last_op, nodes>>

-----------------------------------------------------------------------------
(* Bounds of the model *)

\* Folded integer constants range over -MaxConst .. MaxConst
MaxConst == 2

-----------------------------------------------------------------------------
(* ASR::ttypeType: the twelve type tags, in enum order *)

num_types == 12

Integer_t == 0
Real_t == 1
Complex_t == 2
Character_t == 3
Logical_t == 4
Derived_t == 5
IntegerPointer_t == 6
RealPointer_t == 7
ComplexPointer_t == 8
CharacterPointer_t == 9
LogicalPointer_t == 10
DerivedPointer_t == 11

TypeTags == 0 .. (num_types - 1)

\* Kinds (byte widths) the analysis gives a type: a kind selector picks the
\* kind of the numeric types, literals and declarations give Character 8 and
\* 4, Logical is always 4, and a derived type has one (nominal) kind
KindsOf(tag) ==
    IF tag % (num_types \div 2) \in {Logical_t, Derived_t} THEN {4} ELSE {4, 8}

\* A type: its tag and its kind
Types == UNION {{[type |-> t, kind |-> k] : k \in KindsOf(t)} : t \in TypeTags}

MkType(t, k) == [type |-> t, kind |-> k]

\* ASRUtils::is_pointer
is_pointer(t) == t.type >= (num_types \div 2)

\* ASRUtils::is_same_type_pointer: exactly one side is a pointer, and it is
\* the pointer variant of the other side's tag
is_same_type_pointer(s, d) ==
    /\ is_pointer(s) # is_pointer(d)
    /\ LET src == IF is_pointer(s) /\ ~is_pointer(d) THEN d ELSE s
           dst == IF is_pointer(s) /\ ~is_pointer(d) THEN s ELSE d
       IN dst.type = src.type + (num_types \div 2)

\* ASRUtils::extract_kind_from_ttype_t
extract_kind_from_ttype_t(t) == t.kind

\* ASRUtils::check_equal_type
check_equal_type(x, y) == x.type = y.type \/ is_same_type_pointer(x, y)

-----------------------------------------------------------------------------
(* Expressions: a node kind, a type, an optional folded value *)

NoValue == [vk |-> "none", n |-> 0]
IntValue(n) == [vk |-> "int", n |-> n]
OtherValue == [vk |-> "other", n |-> 0]

ConstRange == (0 - MaxConst) .. MaxConst

\* The operand expressions handed to the operator visitors: integer-typed
\* operands may carry a ConstantInteger value, operands of the other types a
\* constant of their own type, and any operand may carry none (a variable).
ValuesOf(t) ==
    IF t.type = Integer_t
    THEN {NoValue} \cup {IntValue(n) : n \in ConstRange}
    ELSE {NoValue, OtherValue}

MkExpr(node, t, v, ck) == [node |-> node, type |-> t, value |-> v, cast_kind |-> ck]

Operands == UNION {{MkExpr("Operand", t, v, "none") : v \in ValuesOf(t)} : t \in Types}

\* ASRUtils::expr_type, ASRUtils::expr_value
expr_type(e) == e.type
expr_value(e) == e.value

NoType == [type |-> 0 - 1, kind |-> 0]
NoNode == [node |-> "none"]

-----------------------------------------------------------------------------
(* ImplicitCastRules *)

default_case == "default_case"
error_case == "error_case"

rule_row_Integer == <<"IntegerToInteger", "IntegerToReal", "IntegerToComplex",
                      error_case, "IntegerToLogical", error_case>>
rule_row_Real == <<"RealToInteger", "RealToReal", "RealToComplex",
                   default_case, default_case, default_case>>
rule_row_Complex == <<default_case, default_case, "ComplexToComplex",
                      default_case, default_case, default_case>>
rule_row_default == <<default_case, default_case, default_case,
                      default_case, default_case, default_case>>

\* rule_map[num_types/2][num_types]: row = source index, column = destination tag
rule_table == << rule_row_Integer \o rule_row_Integer,
                 rule_row_Real \o rule_row_Real,
                 rule_row_Complex \o rule_row_Complex,
                 rule_row_default \o rule_row_default,
                 rule_row_default \o rule_row_default,
                 rule_row_default \o rule_row_default >>

\* A rule table whose Real row has lost its casts to Integer and Complex
rule_map_real_row_default(s, d) ==
    IF s = Real_t /\ d % (num_types \div 2) \in {Integer_t, Complex_t}
    THEN default_case
    ELSE rule_table[s + 1][d + 1]

rule_map(s, d) == rule_table[s + 1][d + 1]

\* type_priority[num_types/2]
priority_table == <<4, 5, 6, 0 - 1, 0 - 1, 0 - 1>>

type_priority(i) == priority_table[i + 1]

\* find_conversion_candidate with a strict comparison: a tie casts the left operand
find_conversion_candidate_strict(left_type, right_type) ==
    LET left_type_p == type_priority(left_type.type % (num_types \div 2))
        right_type_p == type_priority(right_type.type % (num_types \div 2))
    IN IF left_type_p > right_type_p
       THEN [cand |-> "right", source |-> right_type, dest |-> left_type]
       ELSE [cand |-> "left", source |-> left_type, dest |-> right_type]

\* find_conversion_candidate: which operand is cast, and from/to which type
find_conversion_candidate(left_type, right_type) ==
    LET left_type_p == type_priority(left_type.type % (num_types \div 2))
        right_type_p == type_priority(right_type.type % (num_types \div 2))
    IN IF left_type_p >= right_type_p
       THEN [cand |-> "right", source |-> right_type, dest |-> left_type]
       ELSE [cand |-> "left", source |-> left_type, dest |-> right_type]

\* set_converted_value with the swap the other way round: the pointer side
\* becomes the source
set_converted_value_swap_to_source(convert_can, src_type, dst_type) ==
    LET same == src_type.type = dst_type.type \/ is_same_type_pointer(src_type, dst_type)
        swap == same /\ ~is_pointer(src_type) /\ is_pointer(dst_type)
        s2 == IF swap THEN dst_type ELSE src_type
        d2 == IF swap THEN src_type ELSE dst_type
    IN IF same /\ extract_kind_from_ttype_t(s2) = extract_kind_from_ttype_t(d2)
       THEN [error |-> FALSE, expr |-> convert_can, cell |-> <<>>]
       ELSE LET cast_kind == rule_map(s2.type % (num_types \div 2), d2.type)
                cell == <<s2.type % (num_types \div 2), d2.type, s2, d2>>
            IN IF cast_kind = error_case
               THEN [error |-> TRUE, expr |-> convert_can, cell |-> cell]
               ELSE IF cast_kind # default_case
               THEN [error |-> FALSE,
                     expr |-> MkExpr("ImplicitCast", d2, NoValue, cast_kind),
                     cell |-> cell]
               ELSE [error |-> FALSE, expr |-> convert_can, cell |-> cell]

\* set_converted_value: the candidate expression after cast insertion, whether
\* a SemanticError was thrown, and the rule_map cell that was read (if any)
set_converted_value(convert_can, src_type, dst_type) ==
    LET same == src_type.type = dst_type.type \/ is_same_type_pointer(src_type, dst_type)
        swap == same /\ is_pointer(src_type) /\ ~is_pointer(dst_type)
        s2 == IF swap THEN dst_type ELSE src_type
        d2 == IF swap THEN src_type ELSE dst_type
    IN IF same /\ extract_kind_from_ttype_t(s2) = extract_kind_from_ttype_t(d2)
       THEN [error |-> FALSE, expr |-> convert_can, cell |-> <<>>]
       ELSE LET cast_kind == rule_map(s2.type % (num_types \div 2), d2.type)
                cell == <<s2.type % (num_types \div 2), d2.type, s2, d2>>
            IN IF cast_kind = error_case
               THEN [error |-> TRUE, expr |-> convert_can, cell |-> cell]
               ELSE IF cast_kind # default_case
               THEN [error |-> FALSE,
                     expr |-> MkExpr("ImplicitCast", d2, NoValue, cast_kind),
                     cell |-> cell]
               ELSE [error |-> FALSE, expr |-> convert_can, cell |-> cell]

-----------------------------------------------------------------------------
(* CommonVisitorMethods *)

BinOps == {"Add", "Sub", "Mul", "Div", "Pow"}
CmpOps == {"Eq", "Gt", "GtE", "Lt", "LtE", "NotEq"}
BoolOps == {"And", "Or", "NEqv", "Eqv"}

RECURSIVE IntPow(_, _)
IntPow(b, e) == IF e = 0 THEN 1 ELSE b * IntPow(b, e - 1)

\* C++ integer division truncates towards zero
TruncDiv(a, b) ==
    LET q == (IF a < 0 THEN 0 - a ELSE a) \div (IF b < 0 THEN 0 - b ELSE b)
    IN IF (a < 0) # (b < 0) THEN 0 - q ELSE q

\* (int64_t) std::pow(l, r) for a defined result: an exact power for r >= 0,
\* and 1/l^|r| truncated towards zero for r < 0 (l # 0)
PowResult(l, r) ==
    IF r >= 0 THEN IntPow(l, r)
    ELSE IF l = 1 THEN 1
    ELSE IF l = 0 - 1 THEN (IF r % 2 = 0 THEN 1 ELSE 0 - 1)
    ELSE 0

\* The operand pairs on which the folding switch has no defined result:
\* integer division by zero, and the conversion of pow(0, negative) = inf
FoldUndefined(op, l, r) ==
    \/ op = "Div" /\ r = 0
    \/ op = "Pow" /\ l = 0 /\ r < 0

FoldResult(op, l, r) ==
    CASE op = "Add" -> l + r
      [] op = "Sub" -> l - r
      [] op = "Mul" -> l * r
      [] op = "Div" -> TruncDiv(l, r)
      [] op = "Pow" -> PowResult(l, r)

\* The part of an operator visitor shared by BinOp, Compare and BoolOp:
\* find the conversion candidate, insert the cast, rewrite left or right
CastOperands(l, r) ==
    LET fc == find_conversion_candidate(expr_type(l), expr_type(r))
        sc == set_converted_value(IF fc.cand = "left" THEN l ELSE r, fc.source, fc.dest)
    IN [fc |-> fc, sc |-> sc,
        left |-> IF fc.cand = "left" THEN sc.expr ELSE l,
        right |-> IF fc.cand = "right" THEN sc.expr ELSE r]

\* The value attached to a BinOp node (lines 233-268)
BinOpFolds(l, r, dst) ==
    /\ expr_value(l).vk # "none" /\ expr_value(r).vk # "none"
    /\ dst.type = Integer_t
    /\ expr_value(l).vk = "int" /\ expr_value(r).vk = "int"

MkNode(kind, l, op, r, t, v) ==
    [node |-> kind, left |-> l, op |-> op, right |-> r, type |-> t, value |-> v]

\* Common end of the three visitors: a thrown SemanticError, a failed
\* LFORTRAN_ASSERT (debug build only), or the node
Finish(co, node) ==
    /\ pc' = "done"
    /\ left' = co.left
    /\ right' = co.right
    /\ conversion_cand' = co.fc.cand
    /\ source_type' = co.fc.source
    /\ dest_type' = co.fc.dest
    /\ looked_up' = co.sc.cell
    /\ IF co.sc.error
       THEN outcome' = "error" /\ asr' = NoNode
       ELSE IF with_assert /\ ~check_equal_type(expr_type(co.left), expr_type(co.right))
       THEN outcome' = "assert_failed" /\ asr' = NoNode
       ELSE outcome' = "node" /\ asr' = node
    /\ UNCHANGED <<with_assert, operands>>

\* CommonVisitorMethods::visit_BinOp
visit_BinOp(op) ==
    /\ pc = "start"
    /\ UNCHANGED symVars
    /\ visitor' = [name |-> "BinOp", op |-> op]
    /\ LET co == CastOperands(left, right)
           folds == BinOpFolds(co.left, co.right, co.fc.dest)
           l == expr_value(co.left).n
           r == expr_value(co.right).n
           completes == ~co.sc.error
                        /\ ~(with_assert /\ ~check_equal_type(expr_type(co.left), expr_type(co.right)))
       IN IF completes /\ folds /\ FoldUndefined(op, l, r)
          THEN \* the folding expression has undefined behaviour: the build
               \* either traps or leaves some value in result
               /\ pc' = "done"
               /\ left' = co.left /\ right' = co.right
               /\ conversion_cand' = co.fc.cand
               /\ source_type' = co.fc.source /\ dest_type' = co.fc.dest
               /\ looked_up' = co.sc.cell
               /\ \/ outcome' = "crashed" /\ asr' = NoNode
                  \/ \E n \in ConstRange :
                        /\ outcome' = "node"
                        /\ asr' = MkNode("BinOp", co.left, op, co.right, co.fc.dest, IntValue(n))
               /\ UNCHANGED <<with_assert, operands>>
          ELSE Finish(co, MkNode("BinOp", co.left, op, co.right, co.fc.dest,
                                 IF folds THEN IntValue(FoldResult(op, l, r)) ELSE NoValue))

\* The guard of visit_Compare (lines 277-284)
CompareRejects(op, lt, rt) ==
    /\ lt.type # Real_t /\ lt.type # Integer_t
    /\ rt.type # Real_t /\ rt.type # Integer_t
    /\ (lt.type # Complex_t \/ rt.type # Complex_t)
    /\ op # "Eq"
    /\ op # "NotEq"

Logical4 == MkType(Logical_t, 4)

\* CommonVisitorMethods::visit_Compare
visit_Compare(op) ==
    /\ pc = "start"
    /\ UNCHANGED symVars
    /\ visitor' = [name |-> "Compare", op |-> op]
    /\ IF CompareRejects(op, expr_type(left), expr_type(right))
       THEN /\ pc' = "done"
            /\ outcome' = "error"
            /\ asr' = NoNode
            /\ UNCHANGED <<with_assert, left, right, conversion_cand, source_type,
                           dest_type, looked_up, operands>>
       ELSE LET co == CastOperands(left, right)
            IN Finish(co, MkNode("Compare", co.left, op, co.right, Logical4, NoValue))

\* CommonVisitorMethods::visit_BoolOp
visit_BoolOp(op) ==
    /\ pc = "start"
    /\ UNCHANGED symVars
    /\ visitor' = [name |-> "BoolOp", op |-> op]
    /\ LET co == CastOperands(left, right)
       IN Finish(co, MkNode("BoolOp", co.left, op, co.right, co.fc.dest, NoValue))

\* The expression kinds an assignment target can lower to
TargetKinds == {"Var", "ArrayRef", "DerivedRef", "FunctionCall"}

\* BodyVisitor::visit_Assignment: left is the target, right the value
visit_Assignment(target_kind, target_is_array, value_is_constant_array) ==
    /\ pc = "start"
    /\ UNCHANGED symVars
    /\ pc' = "done"
    /\ visitor' = [name |-> "Assignment", op |-> target_kind]
    /\ UNCHANGED <<with_assert, left, operands>>
    /\ IF target_kind \notin {"Var", "ArrayRef", "DerivedRef"}
       THEN /\ outcome' = "error" /\ asr' = NoNode /\ right' = right
            /\ UNCHANGED <<conversion_cand, source_type, dest_type, looked_up>>
       ELSE IF target_kind = "Var" /\ ~target_is_array /\ value_is_constant_array
       THEN /\ outcome' = "error" /\ asr' = NoNode /\ right' = right
            /\ UNCHANGED <<conversion_cand, source_type, dest_type, looked_up>>
       ELSE IF target_kind \in {"Var", "ArrayRef"}
       THEN LET sc == set_converted_value(right, expr_type(right), expr_type(left))
            IN /\ conversion_cand' = "value"
               /\ source_type' = expr_type(right)
               /\ dest_type' = expr_type(left)
               /\ looked_up' = sc.cell
               /\ right' = sc.expr
               /\ IF sc.error
                  THEN outcome' = "error" /\ asr' = NoNode
                  ELSE /\ outcome' = "node"
                       /\ asr' = MkNode("Assignment", left, target_kind, sc.expr, NoType, NoValue)
       ELSE /\ UNCHANGED <<conversion_cand, source_type, dest_type, looked_up>>
            /\ right' = right
            /\ outcome' = "node"
            /\ asr' = MkNode("Assignment", left, target_kind, right, NoType, NoValue)

-----------------------------------------------------------------------------
(* Operator lowering as a state machine: the operands are drawn first, one   *)
(* visitor then runs on them.                                                *)

CastInit ==
    /\ pc = "start"
    /\ with_assert \in BOOLEAN
    /\ operands \in Operands \X Operands
    /\ left = operands[1]
    /\ right = operands[2]
    /\ conversion_cand = "none"
    /\ source_type = NoType
    /\ dest_type = NoType
    /\ looked_up = <<>>
    /\ outcome = "none"
    /\ asr = NoNode
    /\ visitor = [name |-> "none", op |-> "none"]

\* No operator is being lowered
CastIdle ==
    /\ pc = "idle"
    /\ with_assert = FALSE
    /\ operands = <<>>
    /\ left = NoNode
    /\ right = NoNode
    /\ conversion_cand = "none"
    /\ source_type = NoType
    /\ dest_type = NoType
    /\ looked_up = <<>>
    /\ outcome = "none"
    /\ asr = NoNode
    /\ visitor = [name |-> "none", op |-> "none"]

CastNext ==
    \/ \E op \in BinOps : visit_BinOp(op)
    \/ \E op \in CmpOps : visit_Compare(op)
    \/ \E op \in BoolOps : visit_BoolOp(op)
    \/ \E k \in TargetKinds, a \in BOOLEAN, c \in BOOLEAN : visit_Assignment(k, a, c)

vars == <<castVars, symVars>>

-----------------------------------------------------------------------------
(* Symbol tables.  A name is a sequence of string pieces, so that the        *)
(* mangled names the analysis builds by concatenation are names too.         *)

Nm(str) == <<str>>

\* The pieces names are built from, in the order std::string compares them
AtomOrder == <<"1_", "@", "_", "a", "b", "c", "d", "f", "g", "h", "i", "ip", "kind",
               "lfortran_intrinsic_array", "lfortran_intrinsic_kind", "m1", "m2",
               "m3", "nullptr", "p", "present", "q", "r", "s", "s1", "s2", "sin",
               "size", "sum", "t", "t1", "t2", "u", "v", "w", "x", "y", "z">>

AtomRank(a) == CHOOSE i \in 1 .. Len(AtomOrder) : AtomOrder[i] = a

\* std::map<std::string, ...> key order
RECURSIVE NameLess(_, _)
NameLess(a, b) ==
    IF a = <<>> THEN b # <<>>
    ELSE IF b = <<>> THEN FALSE
    ELSE IF Head(a) = Head(b) THEN NameLess(Tail(a), Tail(b))
    ELSE AtomRank(Head(a)) < AtomRank(Head(b))

\* The keys of a scope in iteration order
RECURSIVE SortedNames(_)
SortedNames(S) ==
    IF S = {} THEN <<>>
    ELSE LET least == CHOOSE n \in S : \A o \in S \ {n} : NameLess(n, o)
         IN <<least>> \o SortedNames(S \ {least})

NoSym == [kind |-> "null"]

\* One record shape for every ASR::symbol_t; a pointer to a symbol is the
\* record itself (symbols are never mutated through a pointer except where an
\* action says so), a null pointer is NoSym.
BaseSym ==
    [kind |-> "none", name |-> <<>>, parent_symtab |-> 0, symtab |-> 0,
     abi |-> "Source", access |-> "Public", deftype |-> "Implementation",
     intent |-> "none", storage |-> "none", presence |-> "none", type |-> NoType,
     derived |-> NoSym, external |-> NoSym, module_name |-> <<>>,
     original_name |-> <<>>, procs |-> <<>>, proc_name |-> <<>>, args |-> <<>>,
     return_var |-> NoSym, dependencies |-> <<>>, body |-> <<>>]

\* ASR::make_Variable_t
make_Variable_t(scope, name, intent, storage, type, derived, access, presence) ==
    [BaseSym EXCEPT !.kind = "Variable", !.name = name, !.parent_symtab = scope,
                    !.intent = intent, !.storage = storage, !.type = type,
                    !.derived = derived, !.access = access, !.presence = presence]

\* ASR::make_ExternalSymbol_t
make_ExternalSymbol_t(scope, name, external, module_name, original_name, access) ==
    [BaseSym EXCEPT !.kind = "ExternalSymbol", !.name = name, !.parent_symtab = scope,
                    !.external = external, !.module_name = module_name,
                    !.original_name = original_name, !.access = access]

\* ASR::make_Subroutine_t
make_Subroutine_t(scope, name, args, abi, access, deftype) ==
    [BaseSym EXCEPT !.kind = "Subroutine", !.name = name, !.symtab = scope,
                    !.args = args, !.abi = abi, !.access = access, !.deftype = deftype]

\* ASR::make_Function_t
make_Function_t(scope, name, args, return_var, abi, access, deftype) ==
    [BaseSym EXCEPT !.kind = "Function", !.name = name, !.symtab = scope,
                    !.args = args, !.return_var = return_var, !.abi = abi,
                    !.access = access, !.deftype = deftype]

\* ASR::make_Module_t
make_Module_t(scope, name, dependencies) ==
    [BaseSym EXCEPT !.kind = "Module", !.name = name, !.symtab = scope,
                    !.dependencies = dependencies]

\* ASR::make_Program_t
make_Program_t(scope, name, dependencies) ==
    [BaseSym EXCEPT !.kind = "Program", !.name = name, !.symtab = scope,
                    !.dependencies = dependencies]

\* ASR::make_DerivedType_t
make_DerivedType_t(scope, name, access) ==
    [BaseSym EXCEPT !.kind = "DerivedType", !.name = name, !.symtab = scope,
                    !.access = access]

\* ASR::make_GenericProcedure_t
make_GenericProcedure_t(scope, name, procs, access) ==
    [BaseSym EXCEPT !.kind = "GenericProcedure", !.name = name,
                    !.parent_symtab = scope, !.procs = procs, !.access = access]

\* ASR::make_ClassProcedure_t
make_ClassProcedure_t(scope, name, proc_name, proc) ==
    [BaseSym EXCEPT !.kind = "ClassProcedure", !.name = name, !.parent_symtab = scope,
                    !.proc_name = proc_name, !.external = proc]

\* A SymbolTable: its parent (0 = nullptr) and its scope map
NewTable(parent) == [parent |-> parent, scope |-> <<>>]

\* tables are numbered by their counter; the root table is the first one
RootScope == 1

Has(tables, id, name) == name \in DOMAIN tables[id].scope

\* scope[name] = sym
Put(tables, id, name, sym) ==
    [tables EXCEPT ![id].scope = (name :> sym) @@ tables[id].scope]

\* SymbolTable::resolve_symbol: the innermost binding along the parent chain
RECURSIVE resolve_symbol(_, _, _)
resolve_symbol(tables, id, name) ==
    IF id = 0 THEN NoSym
    ELSE IF Has(tables, id, name) THEN tables[id].scope[name]
    ELSE resolve_symbol(tables, tables[id].parent, name)

\* ASRUtils::symbol_get_past_external
symbol_get_past_external(sym) ==
    IF sym.kind = "ExternalSymbol" THEN sym.external ELSE sym

\* present(Vec<char*>&, name)
present(vec, name) == \E i \in 1 .. Len(vec) : vec[i] = name

-----------------------------------------------------------------------------
(* The two passes.  A visitor of a program unit is split where it descends   *)
(* into its children: the part before is its _begin action, the part after   *)
(* its _end action; every other visitor is one action.  The handlers are     *)
(* written as functions from the analysis state to the analysis state.       *)

\* A translation unit has at most MaxUnits modules, programs, derived types
\* and interface blocks, MaxProcs subroutines and functions, MaxUses use
\* statements, MaxDecls declarations and MaxStmts statements
MaxUnits == 2
MaxProcs == 2
MaxUses == 2
MaxDecls == 2
MaxStmts == 2

UnitOps == {"Module_begin", "Program_begin", "DerivedType_begin", "Interface_begin",
            "InterfaceProc_begin"}
ProcOps == {"Subroutine_begin", "Function_begin"}
DeclOps == {"Declaration", "Interface", "DerivedTypeProc"}
StmtOps == {"SubroutineCall", "Assignment", "Continue", "Print", "Return", "If",
            "WhileLoop", "DoLoop", "DoConcurrentLoop", "Select", "Associate", "Open",
            "Close", "Read", "Write"}

\* The AST node class an action visits, "free" for the second half of a visitor
ClassOf(o) ==
    CASE o \in UnitOps -> "unit"
      [] o \in ProcOps -> "proc"
      [] o = "Use" -> "use"
      [] o \in DeclOps -> "decl"
      [] o \in StmtOps -> "stmt"
      [] OTHER -> "free"

MaxCount == [unit |-> MaxUnits, proc |-> MaxProcs, use |-> MaxUses,
             decl |-> MaxDecls, stmt |-> MaxStmts, free |-> 1]

\* The analysis state as one value
Cur ==
    [status |-> status, error |-> error, pass |-> pass, symtab |-> symtab,
     current_scope |-> current_scope, frames |-> frames, ast |-> ast,
     current_module_dependencies |-> current_module_dependencies,
     dflt_access |-> dflt_access, assgnd_access |-> assgnd_access,
     assgnd_presence |-> assgnd_presence,
     current_procedure_args |-> current_procedure_args,
     generic_procedures |-> generic_procedures,
     class_procedures |-> class_procedures, dt_name |-> dt_name,
     in_module |-> in_module, is_interface |-> is_interface,
     current_module |-> current_module, tmp |-> tmp]

\* The analysis moves to state S after visiting one more node, described by op
Commit(S, op) ==
    /\ status' = S.status
    /\ error' = S.error
    /\ pass' = S.pass
    /\ symtab' = S.symtab
    /\ current_scope' = S.current_scope
    /\ frames' = S.frames
    /\ ast' = S.ast
    /\ current_module_dependencies' = S.current_module_dependencies
    /\ dflt_access' = S.dflt_access
    /\ assgnd_access' = S.assgnd_access
    /\ assgnd_presence' = S.assgnd_presence
    /\ current_procedure_args' = S.current_procedure_args
    /\ generic_procedures' = S.generic_procedures
    /\ class_procedures' = S.class_procedures
    /\ dt_name' = S.dt_name
    /\ in_module' = S.in_module
    /\ is_interface' = S.is_interface
    /\ current_module' = S.current_module
    /\ tmp' = S.tmp
    /\ last_op' = op
    /\ nodes[ClassOf(op.op)] < MaxCount[ClassOf(op.op)]
    /\ nodes' = IF ClassOf(op.op) = "free" THEN nodes
                ELSE [nodes EXCEPT ![ClassOf(op.op)] = @ + 1]
    /\ UNCHANGED castVars

\* throw SemanticError(msg, loc) / throw LFortranException(msg): the exception
\* leaves ast_to_asr, whatever was built so far stays as it is
Throw(S, msg) == [S EXCEPT !.status = "error", !.error = msg]

\* A null pointer is dereferenced or a pointer is cast to the wrong class
Crash(S) == [S EXCEPT !.status = "crashed", !.error = "undefined"]

Running == status = "running"

Top == frames[Len(frames)]

Pop(S) == [S EXCEPT !.frames = SubSeq(S.frames, 1, Len(S.frames) - 1)]

UnitKinds == {"Module", "Program", "Subroutine", "Function"}

\* The visitor of a unit that is in progress; phase is the part of the unit
\* its children are being visited in: "use", "decl", "body" or "contains"
Frame(kind, name, phase, info) ==
    [kind |-> kind, name |-> name, phase |-> phase, info |-> info,
     contains |-> <<>>, body |-> <<>>]

\* The unit that was visited, as Pass 2 will find it again in the AST
Skeleton(f) == [kind |-> f.kind, name |-> f.name, contains |-> f.contains]

\* The unit of frame f has been visited: it is recorded in the unit it is
\* contained in, or in the translation unit
Record(S, f) ==
    LET n == Len(S.frames)
    IN IF n = 0 THEN [S EXCEPT !.ast = Append(S.ast, Skeleton(f))]
       ELSE IF S.frames[n].kind \in UnitKinds
       THEN [S EXCEPT !.frames[n].contains = Append(S.frames[n].contains, Skeleton(f)),
                      !.frames[n].phase = "contains"]
       ELSE [S EXCEPT !.frames[n].phase = "closed"]

-----------------------------------------------------------------------------
(* Module files *)

\* The intrinsic modules that can be loaded from disk and the functions each
\* of them is taken to define
ModFileNames == {Nm("lfortran_intrinsic_kind"), Nm("lfortran_intrinsic_array")}

ModFileFunctions(m) ==
    IF m = Nm("lfortran_intrinsic_kind") THEN <<Nm("kind")>>
    ELSE <<Nm("size"), Nm("sum")>>

Integer4 == MkType(Integer_t, 4)

\* The functions fns of a module file become Function symbols of table mt
RECURSIVE AddModFunctions(_, _, _)
AddModFunctions(tables, mt, fns) ==
    IF fns = <<>> THEN tables
    ELSE LET ft == Len(tables) + 1
             fn == Head(fns)
             rv == make_Variable_t(ft, fn, "ReturnVar", "Default", Integer4, NoSym,
                                   "Public", "Required")
             x == make_Variable_t(ft, Nm("x"), "In", "Default", Integer4, NoSym,
                                  "Public", "Required")
             f == make_Function_t(ft, fn, <<Nm("x")>>, [tab |-> ft, name |-> fn],
                                  "Source", "Public", "Implementation")
             t1 == Append(tables, NewTable(mt))
             t2 == Put(Put(t1, ft, fn, rv), ft, Nm("x"), x)
         IN AddModFunctions(Put(t2, mt, fn, f), mt, Tail(fns))

\* load_module(al, symtab, module_name, loc, intrinsic): the loader is
\* memoizing, a module that the scope holds already is returned as it is;
\* otherwise the module is read from its file and becomes a Module symbol of
\* the scope.  The result is <<state, the module symbol or NoSym>>
load_module(S, scope, name) ==
    IF scope = 0 THEN <<Crash(S), NoSym>>
    ELSE IF Has(S.symtab, scope, name)
    THEN IF S.symtab[scope].scope[name].kind = "Module"
         THEN <<S, S.symtab[scope].scope[name]>>
         ELSE <<Throw(S, "The symbol is not a module"), NoSym>>
    ELSE IF name \notin ModFileNames
    THEN <<Throw(S, "Module not declared in the current source and the modfile was not found"),
           NoSym>>
    ELSE LET mt == Len(S.symtab) + 1
             m == make_Module_t(mt, name, <<>>)
             t1 == AddModFunctions(Append(S.symtab, NewTable(scope)), mt,
                                   ModFileFunctions(name))
         IN <<[S EXCEPT !.symtab = Put(t1, scope, name, m)], m>>

-----------------------------------------------------------------------------
(* Pass 1: SymbolTableVisitor *)

EmptyMap == <<>>

\* SymbolTableVisitor::resolve_symbol for each name of one generic interface:
\* <<found all, the symbols>>
RECURSIVE ResolveAll(_, _, _)
ResolveAll(tables, scope, pnames) ==
    IF pnames = <<>> THEN <<TRUE, <<>>>>
    ELSE LET x == resolve_symbol(tables, scope, Head(pnames))
             rest == ResolveAll(tables, scope, Tail(pnames))
         IN IF x = NoSym THEN <<FALSE, <<>>>>
            ELSE <<rest[1], <<x>> \o rest[2]>>

\* add_generic_procedures, over the generic names still to do
RECURSIVE add_generic_procedures_from(_, _)
add_generic_procedures_from(S, todo) ==
    IF todo = <<>> \/ S.status # "running" THEN S
    ELSE LET generic_name == Head(todo)
             symbols == ResolveAll(S.symtab, S.current_scope,
                                   S.generic_procedures[generic_name])
             v == make_GenericProcedure_t(S.current_scope, generic_name, symbols[2],
                                          "Public")
         IN IF ~symbols[1] THEN Throw(S, "Symbol not declared")
            ELSE add_generic_procedures_from(
                     [S EXCEPT !.symtab = Put(S.symtab, S.current_scope, generic_name, v)],
                     Tail(todo))

add_generic_procedures(S) ==
    add_generic_procedures_from(S, SortedNames(DOMAIN S.generic_procedures))

\* The inner loop of add_class_procedures: the bindings of one derived type.
\* scope[pname.second] adds a null entry when the procedure is not there.
RECURSIVE add_class_procedures_of(_, _, _, _)
add_class_procedures_of(S, clss, bindings, todo) ==
    IF todo = <<>> THEN S
    ELSE LET name == Head(todo)
             proc_name == bindings[name]
             here == S.symtab[S.current_scope].scope
             proc_sym == IF proc_name \in DOMAIN here THEN here[proc_name] ELSE NoSym
             t1 == Put(S.symtab, S.current_scope, proc_name, proc_sym)
             v == make_ClassProcedure_t(S.current_scope, name, proc_name, proc_sym)
             t2 == Put(t1, clss.symtab, name, v)
         IN add_class_procedures_of([S EXCEPT !.symtab = t2], clss, bindings, Tail(todo))

\* add_class_procedures, over the derived type names still to do
RECURSIVE add_class_procedures_from(_, _)
add_class_procedures_from(S, todo) ==
    IF todo = <<>> \/ S.status # "running" THEN S
    ELSE LET here == S.symtab[S.current_scope].scope
             clss == IF Head(todo) \in DOMAIN here THEN here[Head(todo)] ELSE NoSym
             bindings == S.class_procedures[Head(todo)]
         IN IF clss.kind # "DerivedType" THEN Crash(S)
            ELSE add_class_procedures_from(
                     add_class_procedures_of(S, clss, bindings,
                                             SortedNames(DOMAIN bindings)),
                     Tail(todo))

add_class_procedures(S) ==
    add_class_procedures_from(S, SortedNames(DOMAIN S.class_procedures))

\* SymbolTableVisitor::visit_Module up to its first child
ST_visit_Module_begin(S, name) ==
    LET parent_scope == S.current_scope
        id == Len(S.symtab) + 1
    IN [S EXCEPT !.symtab = Append(S.symtab, NewTable(parent_scope)),
                 !.current_scope = id,
                 !.current_module_dependencies = <<>>,
                 !.generic_procedures = EmptyMap,
                 !.in_module = TRUE,
                 !.frames = Append(S.frames,
                                   Frame("Module", name, "use",
                                         [parent_scope |-> parent_scope]))]

\* SymbolTableVisitor::visit_Module after its last child
ST_visit_Module_end(S) ==
    LET f == S.frames[Len(S.frames)]
        parent_scope == f.info.parent_scope
        S1 == add_generic_procedures(S)
        S2 == IF S1.status = "running" THEN add_class_procedures(S1) ELSE S1
        m == make_Module_t(S2.current_scope, f.name, S2.current_module_dependencies)
    IN IF S2.status # "running" THEN S2
       ELSE IF Has(S2.symtab, parent_scope, f.name)
       THEN Throw(S2, "Module already defined")
       ELSE Record(Pop([S2 EXCEPT !.symtab = Put(S2.symtab, parent_scope, f.name, m),
                                  !.current_scope = parent_scope,
                                  !.in_module = FALSE]), f)

\* SymbolTableVisitor::visit_Program up to its first child
ST_visit_Program_begin(S, name) ==
    LET parent_scope == S.current_scope
        id == Len(S.symtab) + 1
    IN [S EXCEPT !.symtab = Append(S.symtab, NewTable(parent_scope)),
                 !.current_scope = id,
                 !.current_module_dependencies = <<>>,
                 !.frames = Append(S.frames,
                                   Frame("Program", name, "use",
                                         [parent_scope |-> parent_scope]))]

\* SymbolTableVisitor::visit_Program after its last child
ST_visit_Program_end(S) ==
    LET f == S.frames[Len(S.frames)]
        parent_scope == f.info.parent_scope
        m == make_Program_t(S.current_scope, f.name, S.current_module_dependencies)
    IN IF Has(S.symtab, parent_scope, f.name)
       THEN Throw(S, "Program already defined")
       ELSE Record(Pop([S EXCEPT !.symtab = Put(S.symtab, parent_scope, f.name, m),
                                 !.current_scope = parent_scope]), f)

\* if (!present(vec, name)) vec.push_back(name)
push_if_absent(vec, name) == IF present(vec, name) THEN vec ELSE Append(vec, name)

\* vec.push_back(name) with no test before it
push_always(vec, name) == Append(vec, name)

\* visit_Use, n_symbols == 0: the loop over the scope of module m
RECURSIVE use_all_from(_, _, _)
use_all_from(S, m, todo) ==
    IF todo = <<>> \/ S.status # "running" THEN S
    ELSE LET item == S.symtab[m.symtab].scope[Head(todo)]
         IN IF item.kind = "null" THEN Crash(S)
            ELSE IF item.kind \in {"Subroutine", "Function", "GenericProcedure", "Variable"}
            THEN LET sub == make_ExternalSymbol_t(S.current_scope, item.name, item,
                                                  m.name, item.name, S.dflt_access)
                 IN use_all_from(
                        [S EXCEPT !.symtab = Put(S.symtab, S.current_scope, item.name, sub)],
                        m, Tail(todo))
            ELSE Throw(S, "is not supported yet for declaring with use")

\* The repacked ExternalSymbol points at the symbol found in the module, which
\* is itself an ExternalSymbol
repack_chained(S, es) ==
    make_ExternalSymbol_t(S.current_scope, es.name, es, es.module_name,
                          es.original_name, es.access)

\* visit_Use: "Repack ExternalSymbol to point directly to the original symbol"
repack(S, es) ==
    make_ExternalSymbol_t(S.current_scope, es.name, es.external, es.module_name,
                          es.original_name, es.access)

AlreadyDefined(kind) ==
    CASE kind = "Subroutine" -> "Subroutine already defined"
      [] kind = "Function" -> "Function already defined"
      [] kind = "Variable" -> "Variable already defined"
      [] kind = "DerivedType" -> "Derived type already defined"
      [] OTHER -> "Symbol already defined"

\* visit_Use, n_symbols > 0: the loop over the only-list; a list entry is
\* [sym, rename], rename = <<>> when there is none
RECURSIVE use_only_from(_, _, _)
use_only_from(S, m, todo) ==
    IF todo = <<>> \/ S.status # "running" THEN S
    ELSE LET remote_sym == Head(todo).sym
             local_sym == IF Head(todo).rename # <<>> THEN Head(todo).rename
                          ELSE remote_sym
             t == resolve_symbol(S.symtab, m.symtab, remote_sym)
             ext == IF t.kind = "ExternalSymbol" THEN repack(S, t)
                    ELSE make_ExternalSymbol_t(S.current_scope, local_sym, t, m.name,
                                               t.name, S.dflt_access)
         IN IF t = NoSym THEN Throw(S, "The symbol not found in the module")
            ELSE IF t.kind \in {"Subroutine", "GenericProcedure", "ExternalSymbol",
                                "Function", "Variable", "DerivedType"}
            THEN IF Has(S.symtab, S.current_scope, local_sym)
                 THEN Throw(S, AlreadyDefined(t.kind))
                 ELSE use_only_from(
                          [S EXCEPT !.symtab = Put(S.symtab, S.current_scope, local_sym, ext)],
                          m, Tail(todo))
            ELSE Throw(S, "Only Subroutines, Functions, Variables and Derived supported in 'use'")

\* The dependency list after visit_Use has seen the module name, without the
\* test for its presence
use_dependencies_unchecked(deps, msym) == push_always(deps, msym)

\* visit_Use, lines 1279-1281
use_dependencies(deps, msym) == push_if_absent(deps, msym)

\* SymbolTableVisitor::visit_Use; symbols is the only-list, <<>> for none
visit_Use(S, msym, symbols) ==
    LET S0 == [S EXCEPT !.current_module_dependencies =
                            use_dependencies(S.current_module_dependencies, msym)]
        parent == S0.symtab[S0.current_scope].parent
        found == resolve_symbol(S0.symtab, parent, msym)
        loaded == IF found = NoSym THEN load_module(S0, parent, msym)
                  ELSE <<S0, found>>
        S1 == loaded[1]
        t == loaded[2]
    IN IF S1.status # "running" THEN S1
       ELSE IF t.kind # "Module" THEN Throw(S1, "The symbol must be a module")
       ELSE IF symbols = <<>>
       THEN use_all_from(S1, t, SortedNames(DOMAIN S1.symtab[t.symtab].scope))
       ELSE use_only_from(S1, t, symbols)

-----------------------------------------------------------------------------
(* Declarations.  An AST::Declaration_t is                                   *)
(*   [vartype, type_name, kind, attributes, syms]                            *)
(* with vartype "none" when the type is missing, an attribute                *)
(* [attr, intent] and a declared entity [name, n_dim, initializer].          *)

Attr(a) == [attr |-> a, intent |-> "none"]
AttrIntent(i) == [attr |-> "Intent", intent |-> i]
\* An initializer is absent, a constant of some type, or a call f(...)
NoInit == [ik |-> "none", type |-> NoType, func |-> <<>>]
InitConst(t) == [ik |-> "const", type |-> t, func |-> <<>>]
InitCall(f) == [ik |-> "call", type |-> NoType, func |-> f]
VarSym(name) == [name |-> name, n_dim |-> 0, initializer |-> NoInit]
VarSymInit(name, init) == [name |-> name, n_dim |-> 0, initializer |-> init]
Declaration(vartype, type_name, kind, attributes, syms) ==
    [vartype |-> vartype, type_name |-> type_name, kind |-> kind,
     attributes |-> attributes, syms |-> syms]

\* The intrinsic_procedures table, restricted to the names the model uses
intrinsic_procedures ==
    (Nm("kind") :> Nm("lfortran_intrinsic_kind")) @@
    (Nm("size") :> Nm("lfortran_intrinsic_array")) @@
    (Nm("sum") :> Nm("lfortran_intrinsic_array"))

\* EXPR2VAR(fn->m_return_var)->m_type
ReturnType(tables, fn) == tables[fn.return_var.tab].scope[fn.return_var.name].type

\* SymbolTableVisitor::visit_FuncCallOrArray: <<state, type of the call>>
ST_visit_FuncCallOrArray(S, var_name) ==
    LET v == resolve_symbol(S.symtab, S.current_scope, var_name)
        Import(S1, m, t) ==
            LET fn == make_ExternalSymbol_t(S1.current_scope, t.name, t, m.name,
                                            t.name, "Private")
            IN IF S1.status # "running" THEN <<S1, NoType>>
               ELSE IF t = NoSym
               THEN <<Throw(S1, "The symbol not found in the module"), NoType>>
               ELSE IF t.kind # "Function" THEN <<Crash(S1), NoType>>
               ELSE <<[S1 EXCEPT !.symtab = Put(S1.symtab, S1.current_scope, t.name, fn),
                                 !.current_module_dependencies =
                                     push_if_absent(S1.current_module_dependencies,
                                                    m.name)],
                      ReturnType(S1.symtab, t)>>
        Loaded(S1, m) == Import(S1, m, resolve_symbol(S1.symtab, m.symtab, var_name))
        Load(loaded) == Loaded(loaded[1], loaded[2])
        callee == symbol_get_past_external(v)
    IN IF v = NoSym
       THEN IF var_name \notin DOMAIN intrinsic_procedures
            THEN <<Throw(S, "Function not found or not implemented yet"), NoType>>
            ELSE Load(load_module(S, S.symtab[S.current_scope].parent,
                                  intrinsic_procedures[var_name]))
       ELSE IF callee.kind # "Function" THEN <<Crash(S), NoType>>
       ELSE <<S, ReturnType(S.symtab, callee)>>

\* The locals of visit_Declaration that the attributes of a declaration set
AttrState(S, sym) ==
    [s_access |-> IF sym \in DOMAIN S.assgnd_access THEN S.assgnd_access[sym]
                  ELSE S.dflt_access,
     s_presence |-> IF sym \in DOMAIN S.assgnd_presence THEN S.assgnd_presence[sym]
                    ELSE "Required",
     storage_type |-> "Default",
     is_pointer |-> FALSE,
     s_intent |-> IF \E i \in 1 .. Len(S.current_procedure_args) :
                        S.current_procedure_args[i] = sym
                  THEN "Unspecified" ELSE "Local",
     dims |-> 0,
     err |-> "none"]

IntentOf(i) == IF i \in {"In", "Out", "InOut"} THEN i ELSE "Unspecified"

\* The loop over x.m_attributes for one declared entity
RECURSIVE apply_attributes(_, _)
apply_attributes(st, attrs) ==
    IF attrs = <<>> \/ st.err # "none" THEN st
    ELSE LET a == Head(attrs)
             next ==
               CASE a.attr = "Private" -> [st EXCEPT !.s_access = "Private"]
                 [] a.attr = "Public" -> [st EXCEPT !.s_access = "Public"]
                 [] a.attr = "Parameter" -> [st EXCEPT !.storage_type = "Parameter"]
                 [] a.attr = "Allocatable" -> [st EXCEPT !.storage_type = "Allocatable"]
                 [] a.attr = "Pointer" -> [st EXCEPT !.is_pointer = TRUE]
                 [] a.attr = "Optional" -> [st EXCEPT !.s_presence = "Optional"]
                 [] a.attr = "Target" -> st
                 [] a.attr = "Intent" -> [st EXCEPT !.s_intent = IntentOf(a.intent)]
                 [] a.attr = "Dimension" ->
                      IF st.dims > 0 THEN [st EXCEPT !.err = "Dimensions specified twice"]
                      ELSE [st EXCEPT !.dims = 1]
                 [] OTHER -> [st EXCEPT !.err = "Attribute type not implemented yet"]
         IN apply_attributes(next, Tail(attrs))

Class_t == 12

\* The ttype_t that visit_Declaration builds, or NoType for a type it rejects
DeclaredType(vartype, a_kind, is_ptr) ==
    CASE vartype = "Real" -> MkType(IF is_ptr THEN RealPointer_t ELSE Real_t, a_kind)
      [] vartype = "Integer" -> MkType(IF is_ptr THEN IntegerPointer_t ELSE Integer_t, a_kind)
      [] vartype = "Logical" -> MkType(Logical_t, 4)
      [] vartype = "Complex" -> MkType(IF is_ptr THEN ComplexPointer_t ELSE Complex_t, a_kind)
      [] vartype = "Character" -> MkType(Character_t, 4)
      [] vartype = "Type" -> MkType(Derived_t, 4)
      [] vartype = "Class" -> MkType(Class_t, 4)
      [] OTHER -> NoType

\* Whether an entity may be inserted over an entry of the same name: every
\* scope refuses
redeclare_refused_everywhere(tables, scope, sym) == Has(tables, scope, sym)

\* visit_Declaration, lines 936-944: "re-declaring a global scope variable is
\* allowed, otherwise raise an error"
redeclare_refused(tables, scope, sym) ==
    Has(tables, scope, sym) /\ tables[scope].parent # 0

\* visit_Declaration with a type: one entity of the declaration
declare_sym(S, x, sv) ==
    LET sym == sv.name
        st0 == AttrState(S, sym)
        st == apply_attributes(st0, x.attributes)
        a_kind == IF x.kind = "none" THEN 4 ELSE x.kind
        type == DeclaredType(x.vartype, a_kind, st.is_pointer)
        dt == IF x.vartype \in {"Type", "Class"}
              THEN resolve_symbol(S.symtab, S.current_scope, x.type_name)
              ELSE NoSym
        v == make_Variable_t(S.current_scope, sym, st.s_intent, st.storage_type,
                             type, dt, st.s_access, st.s_presence)
        Store(S1, conv) ==
            IF S1.status # "running" THEN S1
            ELSE IF conv.error
            THEN Throw(S1, "Only the listed implicit conversions are supported")
            ELSE [S1 EXCEPT !.symtab = Put(S1.symtab, S1.current_scope, sym, v)]
        Initialized(S1, init_type) ==
            Store(S1, set_converted_value(
                              MkExpr("Operand", init_type, NoValue, "none"),
                              init_type, type))
        Initialize(called) == Initialized(called[1], called[2])
    IN IF redeclare_refused(S.symtab, S.current_scope, sym)
       THEN Throw(S, "Symbol already declared")
       ELSE IF st.err # "none" THEN Throw(S, st.err)
       ELSE IF sv.n_dim > 0 /\ st.dims > 0
       THEN Throw(S, "Cannot specify dimensions both ways")
       ELSE IF type = NoType THEN Throw(S, "Type not implemented yet.")
       ELSE IF x.vartype \in {"Type", "Class"} /\ dt = NoSym
       THEN Throw(S, "Derived type not declared")
       ELSE IF sv.initializer.ik = "none"
       THEN [S EXCEPT !.symtab = Put(S.symtab, S.current_scope, sym, v)]
       ELSE Initialize(IF sv.initializer.ik = "call"
                       THEN ST_visit_FuncCallOrArray(S, sv.initializer.func)
                       ELSE <<S, sv.initializer.type>>)

\* visit_Declaration with a type: the loop over x.m_syms
RECURSIVE declare_syms(_, _, _)
declare_syms(S, x, todo) ==
    IF todo = <<>> \/ S.status # "running" THEN S
    ELSE declare_syms(declare_sym(S, x, Head(todo)), x, Tail(todo))

\* private :: x, y, z
RECURSIVE assign_attribute(_, _, _)
assign_attribute(S, attr, todo) ==
    IF todo = <<>> \/ S.status # "running" THEN S
    ELSE LET sym == Head(todo).name
             S1 == CASE attr = "Private" ->
                        [S EXCEPT !.assgnd_access = (sym :> "Private") @@ S.assgnd_access]
                      [] attr = "Public" ->
                        [S EXCEPT !.assgnd_access = (sym :> "Public") @@ S.assgnd_access]
                      [] attr = "Optional" ->
                        [S EXCEPT !.assgnd_presence =
                                      (sym :> "Optional") @@ S.assgnd_presence]
                      [] OTHER -> Throw(S, "Attribute declaration not supported")
         IN assign_attribute(S1, attr, Tail(todo))

SimpleAttributes == {"Private", "Public", "Parameter", "Allocatable", "Pointer",
                     "Optional", "Target", "Save", "Other"}

\* SymbolTableVisitor::visit_Declaration.  A failed LFORTRAN_ASSERT is left
\* out: the release build does not evaluate it.
visit_Declaration(S, x) ==
    LET n == Len(x.attributes)
        sa == x.attributes[1].attr
    IN IF x.vartype = "none" /\ n = 1 /\ sa = "Namelist"
       THEN Throw(S, "Namelists not implemented yet")
       ELSE IF \E i \in 1 .. n : x.attributes[i].attr = "Type"
       THEN Throw(S, "Type must be declared first")
       ELSE IF x.vartype # "none" THEN declare_syms(S, x, x.syms)
       ELSE IF n = 0 THEN Throw(S, "No attribute specified")
       ELSE IF n > 1
       THEN Throw(S, "Only one attribute can be specified if type is missing")
       ELSE IF sa \notin SimpleAttributes
       THEN Throw(S, "Attribute declaration not supported")
       ELSE IF x.syms # <<>> THEN assign_attribute(S, sa, x.syms)
       ELSE IF sa = "Private" THEN [S EXCEPT !.dflt_access = "Private"]
       ELSE IF sa = "Public" THEN S
       ELSE IF sa = "Save"
       THEN IF S.in_module THEN S ELSE Throw(S, "Save Attribute not supported yet")
       ELSE Throw(S, "Attribute declaration not supported yet")

-----------------------------------------------------------------------------
(* Procedures *)

\* What an unchecked down_cast to the wrong class may do in a build without
\* assertions
UBOutcomes == {"crash", "proceed", "proceed_other"}

\* A pointer to a symbol of a scope: the table and the key
Ref(tab, name) == [tab |-> tab, name |-> name]

\* The loop that converts and checks the dummy arguments
ArgsDefined(S, args) ==
    \A i \in 1 .. Len(args) : Has(S.symtab, S.current_scope, args[i])

\* The test of an existing entry f1 of the parent scope in visit_Subroutine and
\* visit_Function: "shadow", "throw" or "insert" (no entry).  The m_abi of an
\* entry of another class is read through a pointer of the wrong type: the
\* cast aborts ("crash"), or what is read is Interactive or is not.
ExistingEntry(S, parent_scope, sym_name, kind, ub) ==
    IF ~Has(S.symtab, parent_scope, sym_name) THEN "insert"
    ELSE LET f1 == S.symtab[parent_scope].scope[sym_name]
         IN IF f1.kind = kind
            THEN IF f1.abi = "Interactive" THEN "shadow" ELSE "throw"
            ELSE IF ub = "crash" THEN "crash"
            ELSE IF ub = "proceed" THEN "shadow" ELSE "throw"

\* visit_Subroutine / visit_Function up to the first child
ST_visit_procedure_begin(S, kind, name, info) ==
    LET parent_scope == S.current_scope
        id == Len(S.symtab) + 1
    IN [S EXCEPT !.symtab = Append(S.symtab, NewTable(parent_scope)),
                 !.current_scope = id,
                 !.current_procedure_args = S.current_procedure_args \o info.args,
                 !.frames = Append(S.frames,
                                   Frame(kind, name, "decl",
                                         [parent_scope |-> parent_scope,
                                          s_access |-> S.dflt_access] @@ info))]

ST_visit_Subroutine_begin(S, name, args) ==
    ST_visit_procedure_begin(S, "Subroutine", name,
                             [args |-> args, return_var |-> <<>>, attributes |-> <<>>])

\* SymbolTableVisitor::visit_Subroutine after its last child
ST_visit_Subroutine_end(S, ub) ==
    LET f == S.frames[Len(S.frames)]
        parent_scope == f.info.parent_scope
        sym_name == f.name
        s_access == IF sym_name \in DOMAIN S.assgnd_access
                    THEN S.assgnd_access[sym_name] ELSE f.info.s_access
        deftype == IF S.is_interface THEN "Interface" ELSE "Implementation"
        sub == make_Subroutine_t(S.current_scope, sym_name, f.info.args, "Source",
                                 s_access, deftype)
        found == ExistingEntry(S, parent_scope, sym_name, "Subroutine", ub)
    IN IF ~ArgsDefined(S, f.info.args) THEN Throw(S, "Dummy argument not defined")
       ELSE IF found = "crash" THEN Crash(S)
       ELSE IF found = "throw" THEN Throw(S, "Subroutine already defined")
       ELSE Record(Pop([S EXCEPT !.symtab = Put(S.symtab, parent_scope, sym_name, sub),
                                 !.current_scope = parent_scope,
                                 !.current_procedure_args = <<>>]), f)

\* find_return_type: <<error, the AttrType or "none">>
find_return_type(attributes) ==
    LET types == {i \in 1 .. Len(attributes) : attributes[i].attr = "Type"}
    IN IF Cardinality(types) > 1 THEN <<TRUE, "none">>
       ELSE IF types = {} THEN <<FALSE, "none">>
       ELSE <<FALSE, attributes[CHOOSE i \in types : TRUE].intent>>

\* An AttrType attribute of a function header
AttrType(t) == [attr |-> "Type", intent |-> t]

ST_visit_Function_begin(S, name, args, return_var, attributes) ==
    ST_visit_procedure_begin(S, "Function", name,
                             [args |-> args, return_var |-> return_var,
                              attributes |-> attributes])

\* visit_Function, the else branch: m_intent = intent_return_var
mark_return_var(tables, scope, name) ==
    [tables EXCEPT ![scope].scope[name].intent = "ReturnVar"]

\* SymbolTableVisitor::visit_Function after its last child
ST_visit_Function_end(S, ub) ==
    LET f == S.frames[Len(S.frames)]
        parent_scope == f.info.parent_scope
        sym_name == f.name
        return_var_name == IF f.info.return_var # <<>> THEN f.info.return_var
                           ELSE f.name
        rt == find_return_type(f.info.attributes)
        return_type == rt[2]
        declared == Has(S.symtab, S.current_scope, return_var_name)
        entry == S.symtab[S.current_scope].scope[return_var_name]
        type == DeclaredType(return_type, 4, FALSE)
        new_var == make_Variable_t(S.current_scope, return_var_name, "ReturnVar",
                                   "Default", type, NoSym, "Public", "Required")
        tables == IF ~declared
                  THEN Put(S.symtab, S.current_scope, return_var_name, new_var)
                  ELSE IF entry.kind = "Variable"
                  THEN mark_return_var(S.symtab, S.current_scope, return_var_name)
                  ELSE S.symtab
        s_access == IF sym_name \in DOMAIN S.assgnd_access
                    THEN S.assgnd_access[sym_name] ELSE f.info.s_access
        deftype == IF S.is_interface THEN "Interface" ELSE "Implementation"
        fn == make_Function_t(S.current_scope, sym_name, f.info.args,
                              Ref(S.current_scope, return_var_name), "Source",
                              s_access, deftype)
        S1 == [S EXCEPT !.symtab = tables]
        found == ExistingEntry(S, parent_scope, sym_name, "Function", ub)
    IN IF ~ArgsDefined(S, f.info.args) THEN Throw(S, "Dummy argument not defined")
       ELSE IF f.info.return_var = Nm("@") THEN Throw(S, "Return variable must be an identifier")
       ELSE IF rt[1] THEN Throw(S, "Return type declared twice")
       ELSE IF ~declared /\ return_type = "none" THEN Throw(S, "Return type not specified")
       ELSE IF ~declared /\ return_type \notin {"Integer", "Real", "Complex", "Logical"}
       THEN Throw(S, "Return type not supported")
       ELSE IF declared /\ return_type # "none"
       THEN Throw(S, "Cannot specify the return type twice")
       ELSE IF declared /\ entry.kind # "Variable" /\ ub = "crash" THEN Crash(S)
       ELSE IF found = "crash" THEN Crash(S1)
       ELSE IF found = "throw" THEN Throw(S1, "Function already defined")
       ELSE Record(Pop([S1 EXCEPT !.symtab = Put(S1.symtab, parent_scope, sym_name, fn),
                                  !.current_scope = parent_scope,
                                  !.current_procedure_args = <<>>]), f)

-----------------------------------------------------------------------------
(* Derived types and interfaces *)

\* SymbolTableVisitor::visit_DerivedType up to its first item
visit_DerivedType_begin(S, name) ==
    LET parent_scope == S.current_scope
        id == Len(S.symtab) + 1
    IN [S EXCEPT !.symtab = Append(S.symtab, NewTable(parent_scope)),
                 !.current_scope = id,
                 !.dt_name = name,
                 !.frames = Append(S.frames,
                                   Frame("DerivedType", name, "decl",
                                         [parent_scope |-> parent_scope]))]

\* SymbolTableVisitor::visit_DerivedType after its last item
visit_DerivedType_end(S) ==
    LET f == S.frames[Len(S.frames)]
        parent_scope == f.info.parent_scope
        dt == make_DerivedType_t(S.current_scope, f.name, S.dflt_access)
    IN IF Has(S.symtab, S.current_scope, f.name)
       THEN Throw(S, "DerivedType already defined")
       ELSE Pop([S EXCEPT !.symtab = Put(S.symtab, parent_scope, f.name, dt),
                          !.current_scope = parent_scope])

\* SymbolTableVisitor::visit_DerivedTypeProc; a binding is [sym, rename]
RECURSIVE visit_DerivedTypeProc(_, _)
visit_DerivedTypeProc(S, symbols) ==
    IF symbols = <<>> THEN S
    ELSE LET old == IF S.dt_name \in DOMAIN S.class_procedures
                    THEN S.class_procedures[S.dt_name] ELSE EmptyMap
             new == (Head(symbols).rename :> Head(symbols).sym) @@ old
         IN visit_DerivedTypeProc(
                [S EXCEPT !.class_procedures = (S.dt_name :> new) @@ S.class_procedures],
                Tail(symbols))

\* SymbolTableVisitor::visit_Interface with an InterfaceHeaderName: items is
\* the sequence of the names of its module procedure statements, or
\* "NotModuleProcedure" for an item of another class
visit_Interface_named(S, generic_name, items) ==
    IF \E i \in 1 .. Len(items) : items[i] = Nm("@")
    THEN Throw(S, "Interface procedure type not imlemented yet")
    ELSE [S EXCEPT !.generic_procedures = (generic_name :> items) @@ S.generic_procedures]

\* SymbolTableVisitor::visit_Interface with an InterfaceHeader, up to its
\* first item
visit_Interface_begin(S) ==
    [S EXCEPT !.frames = Append(S.frames, Frame("Interface", <<>>, "decl",
                                               [parent_scope |-> S.current_scope]))]

\* SymbolTableVisitor::visit_Interface with an InterfaceHeader, after its last
\* item
visit_Interface_end(S) == Pop(S)

\* visit_InterfaceProc before visit_program_unit(*x.m_proc)
visit_InterfaceProc_begin(S) ==
    [S EXCEPT !.is_interface = TRUE,
              !.frames = Append(S.frames, Frame("InterfaceProc", <<>>, "decl",
                                               [parent_scope |-> S.current_scope]))]

\* visit_InterfaceProc after visit_program_unit(*x.m_proc)
visit_InterfaceProc_end(S) == Pop([S EXCEPT !.is_interface = FALSE])

-----------------------------------------------------------------------------
(* Pass 2: BodyVisitor *)

\* A null ASR::asr_t*
Null == [node |-> "null"]

\* SymbolTableVisitor::visit_TranslationUnit after its last item, then
\* BodyVisitor::visit_TranslationUnit up to its first item
BodyVisitor_begin(S) ==
    [S EXCEPT !.pass = 2,
              !.current_scope = RootScope,
              !.tmp = Null,
              !.frames = <<Frame("TranslationUnit", <<>>, "contains",
                                 [old_scope |-> RootScope, todo |-> S.ast])>>]

\* BodyVisitor::visit_TranslationUnit after its last item: ast_to_asr returns
BodyVisitor_end(S) == Pop([S EXCEPT !.status = "done"])

\* The symbols create_implicit_deallocate would list if it did not look at
\* the intent
RECURSIVE allocatables_any_intent(_, _)
allocatables_any_intent(scope, todo) ==
    IF todo = <<>> THEN <<>>
    ELSE LET item == scope[Head(todo)]
             rest == allocatables_any_intent(scope, Tail(todo))
         IN IF item.kind = "Variable" /\ item.storage = "Allocatable"
            THEN <<Head(todo)>> \o rest ELSE rest

\* The loop of create_implicit_deallocate over the scope: del_syms
RECURSIVE local_allocatables(_, _)
local_allocatables(scope, todo) ==
    IF todo = <<>> THEN <<>>
    ELSE LET item == scope[Head(todo)]
             rest == local_allocatables(scope, Tail(todo))
         IN IF item.kind = "Variable" /\ item.storage = "Allocatable"
               /\ item.intent = "Local"
            THEN <<Head(todo)>> \o rest ELSE rest

ImplicitDeallocate(syms, origin) ==
    [node |-> "ImplicitDeallocate", syms |-> syms, origin |-> origin]

\* BodyVisitor::create_implicit_deallocate: the statement, or Null
create_implicit_deallocate(S) ==
    LET scope == S.symtab[S.current_scope].scope
        del_syms == local_allocatables(scope, SortedNames(DOMAIN scope))
    IN IF Len(del_syms) = 0 THEN Null ELSE ImplicitDeallocate(del_syms, "scope")

\* BodyVisitor::visit_Module / visit_Program / visit_Subroutine /
\* visit_Function up to the first statement of the body: the unit is the next
\* one of the enclosing unit; the result is crashed when the entry of the
\* scope is not a symbol of the visitor's class
Body_visit_unit_begin(S) ==
    LET n == Len(S.frames)
        unit == Head(S.frames[n].info.todo)
        old_scope == S.current_scope
        here == S.symtab[old_scope].scope
        t == IF unit.name \in DOMAIN here THEN here[unit.name] ELSE NoSym
        S1 == [S EXCEPT !.frames[n].info.todo = Tail(S.frames[n].info.todo),
                        !.frames[n].phase = "contains"]
        f == Frame(unit.kind, unit.name, IF unit.kind = "Module" THEN "contains" ELSE "body",
                   [old_scope |-> old_scope, todo |-> unit.contains])
    IN IF t.kind # unit.kind THEN Crash(S)
       ELSE [S1 EXCEPT !.current_scope = t.symtab,
                       !.current_module = IF unit.kind = "Module" THEN unit.name
                                          ELSE S.current_module,
                       !.frames = Append(S1.frames, f)]

\* The body loop of a unit after visit_stmt has returned
push_stmt(S, prepend) ==
    LET n == Len(S.frames)
    IN IF S.tmp = Null THEN S
       ELSE [S EXCEPT !.frames[n].body =
                          S.frames[n].body
                          \o (IF prepend = Null THEN <<>> ELSE <<prepend>>)
                          \o <<S.tmp>>]

\* visit_Program / visit_Subroutine / visit_Function after the last statement
\* of the body and before the first contained unit
Body_visit_unit_body_end(S) ==
    LET n == Len(S.frames)
        f == S.frames[n]
        impl_del == create_implicit_deallocate(S)
        body == IF impl_del = Null THEN f.body ELSE Append(f.body, impl_del)
    IN [S EXCEPT !.symtab[f.info.old_scope].scope[f.name].body = body,
                 !.frames[n].body = body,
                 !.frames[n].phase = "contains"]

\* The Pass 2 visitor of a unit after its last contained unit
Body_visit_unit_end(S) ==
    LET f == S.frames[Len(S.frames)]
    IN Pop([S EXCEPT !.current_scope = f.info.old_scope,
                     !.current_module = IF f.kind = "Module" THEN <<>>
                                        ELSE S.current_module,
                     !.tmp = Null])

-----------------------------------------------------------------------------
(* Pass 2: expressions.  An AST expression is a Num, a Name id, a Name with  *)
(* one member (member%id, written in the AST as id with m_member[0]) or a    *)
(* FuncCallOrArray f(...) with no arguments that matter to the model.        *)

Num == [e |-> "Num", id |-> <<>>, member |-> <<>>]
Name(id) == [e |-> "Name", id |-> id, member |-> <<>>]
Member(dt_var, id) == [e |-> "Member", id |-> id, member |-> dt_var]
Call(f) == [e |-> "Call", id |-> f, member |-> <<>>]

\* A lowered expression: the node, the symbol it refers to, its type
Lowered(node, sym, type) == [node |-> node, sym |-> sym, type |-> type]

\* The type of a symbol used as a variable, past an ExternalSymbol
VarType(sym) == symbol_get_past_external(sym).type

all_intrinsics == {Nm("sin")}

Real4 == MkType(Real_t, 4)

\* visit_FuncCallOrArray: "present" and the elementary functions are added to
\* the global scope
synthesize(S, fn_name, with_arg, type, abi) ==
    LET fn_scope == Len(S.symtab) + 1
        arg0 == make_Variable_t(fn_scope, Nm("x"), "In", "Default", type, NoSym,
                                "Public", "Required")
        return_var == make_Variable_t(fn_scope, fn_name, "ReturnVar", "Default", type,
                                      NoSym, "Public", "Required")
        fn == make_Function_t(fn_scope, fn_name,
                              IF with_arg THEN <<Nm("x")>> ELSE <<>>,
                              Ref(fn_scope, fn_name), abi, "Public", "Implementation")
        t1 == Append(S.symtab, NewTable(RootScope))
        t2 == IF with_arg THEN Put(t1, fn_scope, Nm("x"), arg0) ELSE t1
        t3 == Put(Put(t2, fn_scope, fn_name, return_var), RootScope, fn_name, fn)
    IN <<[S EXCEPT !.symtab = t3], fn>>

\* current_module->m_dependencies after an intrinsic module was loaded
add_module_dependency(S, m_name) ==
    IF S.current_module = <<>> THEN S
    ELSE LET vec == S.symtab[RootScope].scope[S.current_module].dependencies
         IN [S EXCEPT !.symtab[RootScope].scope[S.current_module].dependencies =
                          push_if_absent(vec, m_name)]

\* BodyVisitor::visit_FuncCallOrArray, the part that finds the symbol v:
\* <<state, v>>
Body_find_function(S, var_name) ==
    LET v == resolve_symbol(S.symtab, S.current_scope, var_name)
        parent == S.symtab[S.current_scope].parent
        grand == IF parent = 0 THEN 0 ELSE S.symtab[parent].parent
        load_scope == IF grand # 0 THEN grand ELSE parent
        Import(S1, m, t) ==
            LET fn == make_ExternalSymbol_t(S1.current_scope, t.name, t, m.name,
                                            t.name, "Private")
            IN IF S1.status # "running" THEN <<S1, NoSym>>
               ELSE IF t = NoSym
               THEN <<Throw(S1, "The symbol not found in the module"), NoSym>>
               ELSE IF t.kind # "Function" THEN <<Crash(S1), NoSym>>
               ELSE <<add_module_dependency(
                          [S1 EXCEPT !.symtab = Put(S1.symtab, S1.current_scope,
                                                    t.name, fn)],
                          m.name), fn>>
        Loaded(S1, m) == Import(S1, m, resolve_symbol(S1.symtab, m.symtab, var_name))
        Load(loaded) == Loaded(loaded[1], loaded[2])
    IN IF v # NoSym THEN <<S, v>>
       ELSE IF var_name \in DOMAIN intrinsic_procedures
       THEN IF parent = 0 THEN <<Crash(S), NoSym>>
            ELSE Load(load_module(S, load_scope, intrinsic_procedures[var_name]))
       ELSE IF var_name = Nm("present")
       THEN synthesize(S, var_name, FALSE, Logical4, "Source")
       ELSE IF var_name \in all_intrinsics
       THEN synthesize(S, var_name, TRUE, Real4, "Intrinsic")
       ELSE <<Throw(S, "Function or array not declared"), NoSym>>

\* BodyVisitor::visit_FuncCallOrArray: <<state, lowered expression>>
Body_visit_FuncCallOrArray(S, var_name) ==
    LET Lower(S1, v) ==
            LET f2 == v.external
            IN IF S1.status # "running" THEN <<S1, Null>>
               ELSE IF v.kind = "Function"
               THEN <<S1, Lowered("FunctionCall", v, ReturnType(S1.symtab, v))>>
               ELSE IF v.kind = "ExternalSymbol"
               THEN IF f2.kind = "Function"
                    THEN <<S1, Lowered("FunctionCall", v, ReturnType(S1.symtab, f2))>>
                    ELSE IF f2.kind = "Variable"
                    THEN <<S1, Lowered("ArrayRef", v, f2.type)>>
                    ELSE <<Throw(S1, "Unimplemented"), Null>>
               ELSE IF v.kind = "Variable" THEN <<S1, Lowered("ArrayRef", v, v.type)>>
               ELSE <<Throw(S1, "Symbol is not a function or an array"), Null>>
        Found(found) == Lower(found[1], found[2])
    IN Found(Body_find_function(S, var_name))

\* BodyVisitor::getDerivedRef_t.  The symbol of the member's derived type is
\* read as a DerivedType_t whatever its class; an ExternalSymbol_t has its
\* m_parent_symtab and m_name where a DerivedType_t has m_symtab and m_name.
getDerivedRef_t(S, v, member, ub) ==
    LET dsym == member.derived
        is_ext == dsym.kind = "ExternalSymbol"
        der_symtab == IF is_ext THEN dsym.parent_symtab ELSE dsym.symtab
        der_name == dsym.name
        m_external == IF is_ext THEN dsym.external ELSE dsym
        module_name == IF is_ext THEN dsym.module_name ELSE Nm("nullptr")
        mangled_name == <<"1_">> \o module_name \o <<"_">> \o der_name
        here == S.symtab[S.current_scope].scope
        reuse == /\ der_name \in DOMAIN here
                 /\ here[der_name].kind = "ExternalSymbol"
                 /\ here[der_name].external = m_external
        der_ext == make_ExternalSymbol_t(S.current_scope, mangled_name, m_external,
                                         module_name, der_name, "Public")
        S1 == IF der_symtab # S.current_scope /\ mangled_name \notin DOMAIN here
                 /\ ~reuse
              THEN [S EXCEPT !.symtab = Put(S.symtab, S.current_scope, mangled_name,
                                            der_ext)]
              ELSE S
    IN IF member.kind # "Variable"
       THEN IF ub = "crash" THEN <<Crash(S), Null>>
            ELSE <<S, Lowered("DerivedRef", member, NoType)>>
       ELSE IF member.type.type = Derived_t
       THEN <<S1, Lowered("DerivedRef", member, member.type)>>
       ELSE <<S, Lowered("DerivedRef", member, member.type)>>

DerivedTags == {Derived_t, DerivedPointer_t, Class_t}

\* BodyVisitor::resolve_variable2: the member var_name of the variable dt_name
resolve_variable2(S, var_name, derived_type_id, ub) ==
    LET v == resolve_symbol(S.symtab, S.current_scope, derived_type_id)
        dsym == v.derived
        der_type == IF dsym.kind = "ExternalSymbol" THEN dsym.external ELSE dsym
        member == resolve_symbol(S.symtab, der_type.symtab, var_name)
    IN IF v = NoSym THEN <<Throw(S, "Variable not declared"), Null>>
       ELSE IF v.kind # "Variable"
       THEN IF ub = "crash" THEN <<Crash(S), Null>>
            ELSE <<Throw(S, "Variable is not a derived type"), Null>>
       ELSE IF v.type.type \notin DerivedTags
       THEN <<Throw(S, "Variable is not a derived type"), Null>>
       ELSE IF der_type.kind # "DerivedType" THEN <<Crash(S), Null>>
       ELSE IF member = NoSym
       THEN <<Throw(S, "Variable doesn't have any member named"), Null>>
       ELSE getDerivedRef_t(S, v, member, ub)

\* BodyVisitor::resolve_variable
resolve_variable(S, var_name) ==
    LET v == resolve_symbol(S.symtab, S.current_scope, var_name)
    IN IF v = NoSym THEN <<Throw(S, "Variable not declared"), Null>>
       ELSE <<S, Lowered("Var", v, IF symbol_get_past_external(v).kind = "Variable"
                                   THEN VarType(v) ELSE NoType)>>

\* BodyVisitor::visit_expr for the expressions of the model:
\* <<state, lowered expression>>
Body_visit_expr(S, x, ub) ==
    CASE x.e = "Num" -> <<S, Lowered("ConstantInteger", NoSym, Integer4)>>
      [] x.e = "Name" -> resolve_variable(S, x.id)
      [] x.e = "Member" -> resolve_variable2(S, x.id, x.member, ub)
      [] x.e = "Call" -> Body_visit_FuncCallOrArray(S, x.id)

\* visit_expr_list: <<state, lowered expressions>>
RECURSIVE Body_visit_expr_list(_, _, _)
Body_visit_expr_list(S, xs, ub) ==
    IF xs = <<>> \/ S.status # "running" THEN <<S, <<>>>>
    ELSE LET Join(first, rest) == <<rest[1], <<first[2]>> \o rest[2]>>
             Rest(first) == Join(first, Body_visit_expr_list(first[1], Tail(xs), ub))
         IN Rest(Body_visit_expr(S, Head(xs), ub))

-----------------------------------------------------------------------------
(* Pass 2: statements *)

\* The formal argument i of a subroutine, as a Variable
Formal(tables, sub, i) == tables[sub.symtab].scope[sub.args[i]]

types_equal(a, b) == a.type = b.type

argument_types_match(tables, args, sub) ==
    /\ Len(args) = Len(sub.args)
    /\ \A i \in 1 .. Len(args) : types_equal(args[i].type, Formal(tables, sub, i).type)

\* select_generic_procedure: the index of the first specific subroutine whose
\* formal arguments match, 0 for "Arguments do not match", -1 for "Only
\* Subroutine supported in generic procedure"
RECURSIVE select_generic_procedure_from(_, _, _, _)
select_generic_procedure_from(tables, args, p, i) ==
    IF i > Len(p.procs) THEN 0
    ELSE IF p.procs[i].kind # "Subroutine" THEN 0 - 1
    ELSE IF argument_types_match(tables, args, p.procs[i]) THEN i
    ELSE select_generic_procedure_from(tables, args, p, i + 1)

select_generic_procedure(tables, args, p) == select_generic_procedure_from(tables, args, p, 1)

GenericError(idx) ==
    IF idx = 0 THEN "Arguments do not match"
    ELSE "Only Subroutine supported in generic procedure"

\* BodyVisitor::resolve_deriv_type_proc: <<state, the member symbol>>
resolve_deriv_type_proc(S, var_name, derived_type_id, ub) ==
    LET v == resolve_symbol(S.symtab, S.current_scope, derived_type_id)
        dsym == v.derived
        der_type == IF dsym.kind = "ExternalSymbol" THEN dsym.external ELSE dsym
        member == resolve_symbol(S.symtab, der_type.symtab, var_name)
    IN IF v = NoSym THEN <<Throw(S, "Variable not declared"), NoSym>>
       ELSE IF v.kind # "Variable"
       THEN IF ub = "crash" THEN <<Crash(S), NoSym>>
            ELSE <<Throw(S, "Variable is not a derived type"), NoSym>>
       ELSE IF v.type.type \notin DerivedTags
       THEN <<Throw(S, "Variable is not a derived type"), NoSym>>
       ELSE IF der_type.kind # "DerivedType" THEN <<Crash(S), NoSym>>
       ELSE IF member = NoSym
       THEN <<Throw(S, "Variable doesn't have any member named"), NoSym>>
       ELSE <<S, member>>

\* A call node that never has a null original symbol
SubroutineCall_with_original(final_sym, original_sym, args) ==
    [node |-> "SubroutineCall", name |-> final_sym,
     original_name |-> IF original_sym = [kind |-> "null"] THEN final_sym
                       ELSE original_sym,
     args |-> args]

\* ASR::make_SubroutineCall_t
SubroutineCall(final_sym, original_sym, args) ==
    [node |-> "SubroutineCall", name |-> final_sym, original_name |-> original_sym,
     args |-> args]

\* A local name that leaves the selected specific out
specific_local_sym_of_generic(p, final_sym) == p.name \o <<"@">>

\* The local name of the ExternalSymbol made for a call through the external
\* generic p that selects final_sym: generic_procedure_local_name @
\* specific_procedure_remote_name
specific_local_sym(p, final_sym) == p.name \o <<"@">> \o final_sym.name

\* BodyVisitor::visit_SubroutineCall: the state with tmp set
visit_SubroutineCall(S, sub_name, member, xargs, ub) ==
    LET Call_(p, S1, args) ==
            LET idx == select_generic_procedure(S1.symtab, args, p)
                g == p.external
                gidx == select_generic_procedure(S1.symtab, args, g)
                specific == g.procs[gidx]
                cname == specific_local_sym(p, specific)
                sub == make_ExternalSymbol_t(S1.current_scope, cname, specific,
                                             p.module_name, specific.name, "Private")
                here == S1.symtab[S1.current_scope].scope
            IN IF S1.status # "running" THEN S1
               ELSE CASE p.kind = "Subroutine" ->
                           [S1 EXCEPT !.tmp = SubroutineCall(p, NoSym, args)]
                      [] p.kind = "GenericProcedure" ->
                           IF idx < 1 THEN Throw(S1, GenericError(idx))
                           ELSE [S1 EXCEPT !.tmp = SubroutineCall(p.procs[idx], p, args)]
                      [] p.kind = "ClassProcedure" ->
                           [S1 EXCEPT !.tmp = SubroutineCall(
                                resolve_symbol(S1.symtab, S1.current_scope, p.proc_name),
                                p, args)]
                      [] p.kind = "ExternalSymbol" ->
                           IF g.kind = "GenericProcedure"
                           THEN IF gidx < 1 THEN Throw(S1, GenericError(gidx))
                                ELSE IF cname \in DOMAIN here
                                THEN [S1 EXCEPT !.tmp =
                                          SubroutineCall(here[cname], p, args)]
                                ELSE [S1 EXCEPT !.symtab = Put(S1.symtab, S1.current_scope,
                                                               cname, sub),
                                                !.tmp = SubroutineCall(sub, p, args)]
                           ELSE IF g.kind # "Subroutine"
                           THEN Throw(S1, "ExternalSymbol must point to a Subroutine")
                           ELSE [S1 EXCEPT !.tmp = SubroutineCall(p, NoSym, args)]
                      [] OTHER -> Throw(S1, "Symbol type not supported")
        Args(original_sym, lowered) == Call_(original_sym, lowered[1], lowered[2])
        Resolved(S0, original_sym) ==
            IF S0.status # "running" THEN S0
            ELSE IF original_sym = NoSym THEN Throw(S0, "Subroutine not declared")
            ELSE Args(original_sym, Body_visit_expr_list(S0, xargs, ub))
        Resolve(resolved) == Resolved(resolved[1], resolved[2])
    IN Resolve(IF member # <<>>
               THEN resolve_deriv_type_proc(S, sub_name, member, ub)
               ELSE <<S, resolve_symbol(S.symtab, S.current_scope, sub_name)>>)

\* The loop of create_implicit_deallocate_subrout_call over the arguments from
\* the i-th on: del_syms
RECURSIVE call_allocatables(_, _, _, _)
call_allocatables(tables, call, subrout, i) ==
    IF i > Len(call.args) THEN <<>>
    ELSE LET arg == call.args[i]
             sym == symbol_get_past_external(arg.sym)
             rest == call_allocatables(tables, call, subrout, i + 1)
         IN IF arg.node = "Var" /\ sym.kind = "Variable"
               /\ sym.storage = "Allocatable"
               /\ Formal(tables, subrout, i).intent = "Out"
            THEN <<arg.sym.name>> \o rest ELSE rest

\* create_implicit_deallocate_subrout_call is defined when the callee is a
\* subroutine that has a formal argument for every actual one
CallWellFormed(tables, call) ==
    LET subrout == symbol_get_past_external(call.name)
    IN /\ subrout.kind = "Subroutine"
       /\ Len(call.args) <= Len(subrout.args)
       /\ \A i \in 1 .. Len(call.args) :
              /\ subrout.args[i] \in DOMAIN tables[subrout.symtab].scope
              /\ Formal(tables, subrout, i).kind = "Variable"

\* BodyVisitor::create_implicit_deallocate_subrout_call: the statement, or Null
create_implicit_deallocate_subrout_call(tables, call) ==
    LET subrout == symbol_get_past_external(call.name)
        del_syms == call_allocatables(tables, call, subrout, 1)
    IN IF Len(del_syms) = 0 THEN Null ELSE ImplicitDeallocate(del_syms, "call")

\* The nodes that are expressions: STMT(tmp) casts tmp to a statement without
\* a test in a build without assertions
ExprNodes == {"Var", "ConstantInteger", "FunctionCall", "ArrayRef", "DerivedRef"}

\* One round of the body loop of a unit: S is the state visit_stmt has left;
\* where create_implicit_deallocate_subrout_call reads past the formal
\* arguments or through a pointer of the wrong class, the outcome is a crash
\* or a call with nothing before it
Body_loop(S, ub) ==
    IF S.status # "running" \/ S.tmp = Null THEN S
    ELSE IF S.tmp.node \in ExprNodes
    THEN IF ub = "crash" THEN Crash(S) ELSE push_stmt(S, Null)
    ELSE IF S.tmp.node # "SubroutineCall" THEN push_stmt(S, Null)
    ELSE IF CallWellFormed(S.symtab, S.tmp)
    THEN push_stmt(S, create_implicit_deallocate_subrout_call(S.symtab, S.tmp))
    ELSE IF ub = "crash" THEN Crash(S)
    ELSE push_stmt(S, Null)

\* set_converted_value indexes rule_map with the type tags of both sides
CastDefined(src, dst) == src.type \in TypeTags /\ dst.type \in TypeTags

\* BodyVisitor::visit_Assignment on a target and a value expression: the
\* state with tmp set
Body_visit_Assignment(S, target_x, value_x, ub) ==
    LET Assign(target, S2, value) ==
            LET conv == set_converted_value(
                            MkExpr("Operand", value.type, NoValue, "none"),
                            value.type, target.type)
                make_Assignment_t(v) ==
                    [node |-> "Assignment", target |-> target.sym.name, value |-> v]
                uncast == [node |-> value.node, type |-> value.type]
            IN IF S2.status # "running" THEN S2
               ELSE IF target.node = "DerivedRef"
               THEN [S2 EXCEPT !.tmp = make_Assignment_t(uncast)]
               ELSE IF ~CastDefined(value.type, target.type)
               THEN IF ub = "crash" THEN Crash(S2)
                    ELSE [S2 EXCEPT !.tmp = make_Assignment_t(uncast)]
               ELSE IF conv.error
               THEN Throw(S2, "Only the listed implicit conversions are supported")
               ELSE [S2 EXCEPT !.tmp = make_Assignment_t(
                         IF conv.expr.node = "ImplicitCast"
                         THEN [node |-> "ImplicitCast", type |-> conv.expr.type]
                         ELSE uncast)]
        Value(target, v) == Assign(target, v[1], v[2])
        Target(S1, target) ==
            IF S1.status # "running" THEN S1
            ELSE IF target.node \notin {"Var", "ArrayRef", "DerivedRef"}
            THEN Throw(S1, "The LHS of assignment can only be a variable or an array reference")
            ELSE Value(target, Body_visit_expr(S1, value_x, ub))
        Visit(t) == Target(t[1], t[2])
    IN Visit(Body_visit_expr(S, target_x, ub))

\* The visitors of the statements that are lowered to one node of their own
\* without a look at the symbol table (Print, Return, Exit, Cycle, Stop, ...)
Body_visit_plain_stmt(S, what) == [S EXCEPT !.tmp = [node |-> what]]

\* BodyVisitor::visit_Continue
visit_Continue(S) == [S EXCEPT !.tmp = Null]

-----------------------------------------------------------------------------
(* Pass 2: statements that hold statements.  An AST statement of the model   *)
(* is [s, name, args, body, orelse]: a call of name with args, a continue, a *)
(* print, or a construct with a body (and an else part, or case blocks).     *)

CallStmt(name, args) ==
    [s |-> "SubroutineCall", name |-> name, args |-> args, body |-> <<>>, orelse |-> <<>>]
ContinueStmt ==
    [s |-> "Continue", name |-> <<>>, args |-> <<>>, body |-> <<>>, orelse |-> <<>>]
PrintStmt ==
    [s |-> "Print", name |-> <<>>, args |-> <<>>, body |-> <<>>, orelse |-> <<>>]
\* if (test) then body else orelse end if
IfStmt(test, body, orelse) ==
    [s |-> "If", name |-> <<>>, args |-> <<test>>, body |-> body, orelse |-> orelse]
\* do while (test) body end do
WhileLoopStmt(test, body) ==
    [s |-> "WhileLoop", name |-> <<>>, args |-> <<test>>, body |-> body, orelse |-> <<>>]
\* do var = start, end body end do; head is <<start, end>> where both are given
DoLoopStmt(var, head, body) ==
    [s |-> "DoLoop", name |-> var, args |-> head, body |-> body, orelse |-> <<>>]
DoConcurrentLoopStmt(var, head, body) ==
    [s |-> "DoConcurrentLoop", name |-> var, args |-> head, body |-> body,
     orelse |-> <<>>]
\* case (tests) body
CaseBlock(tests, body) ==
    [s |-> "CaseStmt", name |-> <<>>, args |-> tests, body |-> body, orelse |-> <<>>]
\* case default body
DefaultBlock(body) ==
    [s |-> "CaseStmt_Default", name |-> <<>>, args |-> <<>>, body |-> body,
     orelse |-> <<>>]
\* select case (test) blocks end select
SelectStmt(test, blocks) ==
    [s |-> "Select", name |-> <<>>, args |-> <<test>>, body |-> blocks, orelse |-> <<>>]

\* A lowered construct: its kind, its body and its second body (the else part
\* of an If, the default body of a Select)
Construct(node, body, orelse) == [node |-> node, body |-> body, orelse |-> orelse]

ConstructNodes == {"If", "WhileLoop", "DoLoop", "DoConcurrentLoop", "Select", "CaseStmt"}

RECURSIVE Body_visit_stmt(_, _, _)

\* The loop of a construct over its statements:
\*   visit_stmt(*x.m_body[i]); if (tmp != nullptr) body.push_back(STMT(tmp));
\* <<state, body>>
RECURSIVE visit_body(_, _, _)
visit_body(S, stmts, ub) ==
    IF stmts = <<>> \/ S.status # "running" THEN <<S, <<>>>>
    ELSE LET Join(S1, rest) ==
                 <<rest[1], (IF S1.tmp = Null THEN <<>> ELSE <<S1.tmp>>) \o rest[2]>>
             Rest(S1) ==
                 IF S1.status # "running" THEN <<S1, <<>>>>
                 ELSE Join(S1, visit_body(S1, Tail(stmts), ub))
         IN Rest(Body_visit_stmt(S, Head(stmts), ub))

\* BodyVisitor::visit_If
visit_If(S, x, ub) ==
    LET Made(body, S2, orelse) ==
            IF S2.status # "running" THEN S2
            ELSE [S2 EXCEPT !.tmp = Construct("If", body, orelse)]
        Else(body, o) == Made(body, o[1], o[2])
        Body(S1, body) ==
            IF S1.status # "running" THEN S1
            ELSE Else(body, visit_body(S1, x.orelse, ub))
        Then(b) == Body(b[1], b[2])
        Test(S0) ==
            IF S0.status # "running" THEN S0 ELSE Then(visit_body(S0, x.body, ub))
        Go(t) == Test(t[1])
    IN Go(Body_visit_expr(S, x.args[1], ub))

\* BodyVisitor::visit_WhileLoop
visit_WhileLoop(S, x, ub) ==
    LET Body(S1, body) ==
            IF S1.status # "running" THEN S1
            ELSE [S1 EXCEPT !.tmp = Construct("WhileLoop", body, <<>>)]
        Then(b) == Body(b[1], b[2])
        Test(S0) ==
            IF S0.status # "running" THEN S0 ELSE Then(visit_body(S0, x.body, ub))
        Go(t) == Test(t[1])
    IN Go(Body_visit_expr(S, x.args[1], ub))

\* BodyVisitor::visit_DoLoop and visit_DoConcurrentLoop with one control
\* statement: the loop variable, start and end are required, then the body
visit_DoLoop(S, x, ub) ==
    LET Body(S1, body) ==
            IF S1.status # "running" THEN S1
            ELSE [S1 EXCEPT !.tmp = Construct(x.s, body, <<>>)]
        Then(b) == Body(b[1], b[2])
        Head_(S0) ==
            IF S0.status # "running" THEN S0 ELSE Then(visit_body(S0, x.body, ub))
        Bounds(h) == Head_(h[1])
        Var(S0) ==
            IF S0.status # "running" THEN S0
            ELSE Bounds(Body_visit_expr_list(S0, x.args, ub))
        Go(v) == Var(v[1])
    IN IF x.name = <<>> THEN Throw(S, "Do loop: loop variable is required for now")
       ELSE IF Len(x.args) < 1 THEN Throw(S, "Do loop: start condition required for now")
       ELSE IF Len(x.args) < 2 THEN Throw(S, "Do loop: end condition required for now")
       ELSE Go(resolve_variable(S, x.name))

\* BodyVisitor::visit_case_stmt for a list of expressions: <<state, body>>
visit_case_stmt(S, b, ub) ==
    LET Tests(S1, tests) ==
            IF S1.status # "running" THEN <<S1, <<>>>>
            ELSE IF \E i \in 1 .. Len(tests) : tests[i].type.type # Integer_t
            THEN <<Throw(S1, "Expression in Case selector can only be an Integer"), <<>>>>
            ELSE visit_body(S1, b.body, ub)
        Go(t) == Tests(t[1], t[2])
    IN IF b.args = <<>>
       THEN <<Throw(S, "Case statement must have at least one condition"), <<>>>>
       ELSE Go(Body_visit_expr_list(S, b.args, ub))

\* The loop of visit_Select over the blocks of the construct:
\* <<state, a_body_vec, def_body>>
RECURSIVE select_blocks(_, _, _, _, _)
select_blocks(S, blocks, a_body_vec, def_body, ub) ==
    IF blocks = <<>> \/ S.status # "running" THEN <<S, a_body_vec, def_body>>
    ELSE LET b == Head(blocks)
             Default(S1, body) ==
                 select_blocks(S1, Tail(blocks), a_body_vec, def_body \o body, ub)
             GoDefault(r) == Default(r[1], r[2])
             Case(S1, body) ==
                 select_blocks(S1, Tail(blocks),
                               Append(a_body_vec, Construct("CaseStmt", body, <<>>)),
                               def_body, ub)
             GoCase(r) == Case(r[1], r[2])
         IN IF b.s = "CaseStmt_Default"
            THEN IF Len(def_body) # 0
                 THEN <<Throw(S, "Default case present more than once"), a_body_vec,
                        def_body>>
                 ELSE GoDefault(visit_body(S, b.body, ub))
            ELSE GoCase(visit_case_stmt(S, b, ub))

\* BodyVisitor::visit_Select
visit_Select(S, x, ub) ==
    LET Made(S2, a_body_vec, def_body) ==
            IF S2.status # "running" THEN S2
            ELSE [S2 EXCEPT !.tmp = Construct("Select", a_body_vec, def_body)]
        Blocks(r) == Made(r[1], r[2], r[3])
        Test(S1, a_test) ==
            IF S1.status # "running" THEN S1
            ELSE IF a_test.type.type # Integer_t
            THEN Throw(S1, "Expression in Case selector can only be an Integer")
            ELSE Blocks(select_blocks(S1, x.body, <<>>, <<>>, ub))
        Go(t) == Test(t[1], t[2])
    IN Go(Body_visit_expr(S, x.args[1], ub))

\* BaseVisitor::visit_stmt: the visitor of the statement's class
Body_visit_stmt(S, x, ub) ==
    CASE x.s = "SubroutineCall" -> visit_SubroutineCall(S, x.name, <<>>, x.args, ub)
      [] x.s = "Continue" -> visit_Continue(S)
      [] x.s = "Print" -> Body_visit_plain_stmt(S, "Print")
      [] x.s = "If" -> visit_If(S, x, ub)
      [] x.s = "WhileLoop" -> visit_WhileLoop(S, x, ub)
      [] x.s \in {"DoLoop", "DoConcurrentLoop"} -> visit_DoLoop(S, x, ub)
      [] x.s = "Select" -> visit_Select(S, x, ub)

-----------------------------------------------------------------------------
(* Pass 2: pointer association and the I/O statements *)

\* BodyVisitor::visit_Associate.  Where the target is a pointer, the value is
\* none and the two are of different families, no branch assigns tmp: it is
\* still the value expression that visit_expr left in it.
visit_Associate(S, target_x, value_x, ub) ==
    LET Made(target, S2, value) ==
            IF S2.status # "running" THEN S2
            ELSE IF ~(is_pointer(target.type) /\ ~is_pointer(value.type))
            THEN Throw(S2, "Only a pointer variable can be associated with a non-pointer variable.")
            ELSE IF is_same_type_pointer(target.type, value.type)
            THEN [S2 EXCEPT !.tmp = [node |-> "Associate", target |-> target,
                                     value |-> value]]
            ELSE [S2 EXCEPT !.tmp = value]
        Value(target, v) == Made(target, v[1], v[2])
        Target(S1, target) ==
            IF S1.status # "running" THEN S1
            ELSE Value(target, Body_visit_expr(S1, value_x, ub))
        Go(t) == Target(t[1], t[2])
    IN Go(Body_visit_expr(S, target_x, ub))

\* A positional argument "*" of a read or write (m_value is nullptr)
Star == [e |-> "Star", id |-> <<>>, member |-> <<>>]

\* A keyword argument
Kw(arg, value) == [arg |-> arg, value |-> value]

\* An open, close, read or write statement
IoStmt(kind, args, kwargs) == [s |-> kind, args |-> args, kwargs |-> kwargs]

\* The expressions an I/O visitor collects: a_unit (a_newunit), a_fmt, ...
NoSlots ==
    [unit |-> Null, fmt |-> Null, iostat |-> Null, iomsg |-> Null, id |-> Null,
     err |-> Null, status |-> Null, file |-> Null]

IntegerTags == {Integer_t, IntegerPointer_t}
CharacterTags == {Character_t, CharacterPointer_t}

\* What the visitor of an I/O statement does with the keyword kw: the slot it
\* fills, whether it wants a variable, the tags it accepts and its message;
\* slot "none" for a keyword that no branch of the visitor names
KeywordRule(kind, kw) ==
    LET rule(slot, needs_var, tags, msg) ==
            [slot |-> slot, needs_var |-> needs_var, tags |-> tags, msg |-> msg]
        none == rule("none", FALSE, {}, "none")
    IN CASE kind = "Open" /\ kw = "newunit" ->
              rule("unit", TRUE, IntegerTags,
                   "newunit/unit must be a variable of type, Integer or IntegerPointer")
         [] kind = "Open" /\ kw = "unit" ->
              rule("unit", FALSE, IntegerTags,
                   "newunit/unit must be a variable of type, Integer or IntegerPointer")
         [] kind = "Open" /\ kw = "file" ->
              rule("file", FALSE, CharacterTags,
                   "file must be of type, Character or CharacterPointer")
         [] kind \in {"Open", "Close"} /\ kw = "status" ->
              rule("status", FALSE, CharacterTags,
                   "status must be of type, Character or CharacterPointer")
         [] kind \in {"Close", "Read", "Write"} /\ kw = "unit" ->
              rule("unit", FALSE, IntegerTags,
                   "unit must be of type, Integer or IntegerPointer")
         [] kind \in {"Close", "Read", "Write"} /\ kw = "iostat" ->
              rule("iostat", TRUE, IntegerTags,
                   "iostat must be a variable of type, Integer or IntegerPointer")
         [] kind \in {"Close", "Read", "Write"} /\ kw = "iomsg" ->
              rule("iomsg", TRUE, CharacterTags,
                   "iomsg must be of type, Character or CharacterPointer")
         [] kind \in {"Read", "Write"} /\ kw = "id" ->
              rule("id", FALSE, CharacterTags,
                   "status must be of type, Character or CharacterPointer")
         [] kind = "Close" /\ kw = "err" -> rule("err", FALSE, TypeTags, "none")
         [] OTHER -> none

\* The loop of an I/O visitor over its keyword arguments: <<state, slots>>
RECURSIVE io_kwargs(_, _, _, _, _)
io_kwargs(S, kind, kwargs, slots, ub) ==
    IF kwargs = <<>> \/ S.status # "running" THEN <<S, slots>>
    ELSE LET kwarg == Head(kwargs)
             r == KeywordRule(kind, kwarg.arg)
             Checked(S1, v) ==
                 IF S1.status # "running" THEN <<S1, slots>>
                 ELSE IF (r.needs_var /\ v.node # "Var") \/ v.type.type \notin r.tags
                 THEN <<Throw(S1, r.msg), slots>>
                 ELSE io_kwargs(S1, kind, Tail(kwargs), [slots EXCEPT ![r.slot] = v], ub)
             Go(v) == Checked(v[1], v[2])
         IN IF r.slot = "none" THEN io_kwargs(S, kind, Tail(kwargs), slots, ub)
            ELSE IF slots[r.slot] # Null
            THEN <<Throw(S, "Duplicate value found"), slots>>
            ELSE IF r.slot = "err" /\ kwarg.value.e # "Num"
            THEN <<Throw(S, "err must be a literal integer"), slots>>
            ELSE IF kwarg.value.e = "Star" THEN <<Crash(S), slots>>
            ELSE Go(Body_visit_expr(S, kwarg.value, ub))

\* The node an I/O visitor makes of the expressions it collected
IoNode(kind, slots) == [node |-> kind, unit |-> slots.unit, fmt |-> slots.fmt]

\* BodyVisitor::visit_Open (x.m_args[0] is a_newunit) and visit_Close
\* (x.m_args[0] is a_unit)
visit_Open_Close(S, x, ub) ==
    LET Made(S2, slots) ==
            IF S2.status # "running" THEN S2
            ELSE IF slots.unit = Null
            THEN Throw(S2, "newunit or unit must be specified either in argument or keyword arguments.")
            ELSE [S2 EXCEPT !.tmp = IoNode(x.s, slots)]
        Keywords(r) == Made(r[1], r[2])
        Positional(S1, a_unit) ==
            IF S1.status # "running" THEN S1
            ELSE Keywords(io_kwargs(S1, x.s, x.kwargs, [NoSlots EXCEPT !.unit = a_unit],
                                    ub))
        Go(v) == Positional(v[1], v[2])
    IN IF Len(x.args) > 1
       THEN Throw(S, "Number of arguments cannot be more than 1 in Open/Close statement.")
       ELSE IF Len(x.args) = 1
       THEN IF x.args[1].e = "Star" THEN Crash(S)
            ELSE Go(Body_visit_expr(S, x.args[1], ub))
       ELSE Go(<<S, Null>>)

visit_Open(S, x, ub) == visit_Open_Close(S, x, ub)

visit_Close(S, x, ub) == visit_Open_Close(S, x, ub)

\* The loop of create_read_write_ASR_node over the positional arguments:
\* args = {&a_unit, &a_fmt}, an argument "*" leaves its slot null
RECURSIVE read_write_args(_, _, _, _, _)
read_write_args(S, args, i, slots, ub) ==
    IF i > Len(args) \/ S.status # "running" THEN <<S, slots>>
    ELSE LET slot == IF i = 1 THEN "unit" ELSE "fmt"
             Filled(S1, v) ==
                 read_write_args(S1, args, i + 1, [slots EXCEPT ![slot] = v], ub)
             Go(v) == Filled(v[1], v[2])
         IN IF args[i].e = "Star" THEN read_write_args(S, args, i + 1, slots, ub)
            ELSE Go(Body_visit_expr(S, args[i], ub))

\* BodyVisitor::create_read_write_ASR_node, for visit_Read and visit_Write
create_read_write_ASR_node(S, x, ub) ==
    LET n_args == Len(x.args)
        Made(S2, slots) ==
            IF S2.status # "running" THEN S2
            ELSE IF slots.unit = Null /\ n_args < 1
            THEN Throw(S2, "unit must be specified either in arguments or keyword arguments.")
            ELSE IF slots.fmt = Null /\ n_args < 2
            THEN Throw(S2, "fmt must be specified either in arguments or keyword arguments.")
            ELSE [S2 EXCEPT !.tmp = IoNode(x.s, slots)]
        Keywords(r) == Made(r[1], r[2])
        Positional(S1, slots) ==
            IF S1.status # "running" THEN S1
            ELSE Keywords(io_kwargs(S1, x.s, x.kwargs, slots, ub))
        Go(r) == Positional(r[1], r[2])
    IN IF n_args > 2
       THEN Throw(S, "Number of arguments cannot be more than 2 in Read/Write statement.")
       ELSE Go(read_write_args(S, x.args, 1, NoSlots, ub))

-----------------------------------------------------------------------------
(* The actions *)

\* What the last action was given: the visitor, the name it declares or uses,
\* the scope the name goes to and the entry that scope had for it before
Op(op, name, scope) ==
    [op |-> op, name |-> name, scope |-> scope,
     old |-> IF scope # 0 /\ Has(symtab, scope, name) THEN symtab[scope].scope[name]
             ELSE NoSym]

\* The visitor in progress is one of kinds (the translation unit is "none")
\* and is in one of phases
In(kinds, phases) ==
    IF frames = <<>> THEN "none" \in kinds
    ELSE Top.kind \in kinds /\ Top.phase \in phases

\* The visitor in progress moves on to phase ph
Enter(S, ph) ==
    IF S.frames = <<>> \/ S.status # "running" THEN S
    ELSE [S EXCEPT !.frames[Len(S.frames)].phase = ph]

Pass1 == Running /\ pass = 1
Pass2 == Running /\ pass = 2

ParentScope == IF frames = <<>> THEN 0 ELSE Top.info.parent_scope

Step_ST_visit_Module_begin(name) ==
    /\ Pass1 /\ In({"none"}, {})
    /\ Commit(ST_visit_Module_begin(Cur, name), Op("Module_begin", name, current_scope))

Step_ST_visit_Module_end ==
    /\ Pass1 /\ In({"Module"}, {"use", "decl", "contains"})
    /\ Commit(ST_visit_Module_end(Cur), Op("Module_end", Top.name, ParentScope))

Step_ST_visit_Program_begin(name) ==
    /\ Pass1 /\ In({"none"}, {})
    /\ Commit(ST_visit_Program_begin(Cur, name), Op("Program_begin", name, current_scope))

Step_ST_visit_Program_end ==
    /\ Pass1 /\ In({"Program"}, {"use", "decl", "contains"})
    /\ Commit(ST_visit_Program_end(Cur), Op("Program_end", Top.name, ParentScope))

Step_visit_Use(msym, symbols) ==
    /\ Pass1 /\ In({"Module", "Program"}, {"use"})
    /\ Commit(visit_Use(Cur, msym, symbols),
              [symbols |-> symbols] @@ Op("Use", msym, current_scope))

Step_visit_Declaration(x) ==
    /\ Pass1
    /\ In({"none", "Module", "Program", "Subroutine", "Function", "DerivedType"},
          {"use", "decl"})
    /\ Commit(Enter(visit_Declaration(Cur, x), "decl"),
              [decl |-> x] @@ Op("Declaration",
                                 IF x.syms = <<>> THEN <<>> ELSE x.syms[1].name,
                                 current_scope))

Step_ST_visit_Subroutine_begin(name, args) ==
    /\ Pass1
    /\ In({"none", "Module", "Program", "Subroutine", "Function", "InterfaceProc"},
          {"use", "decl", "contains"})
    /\ Commit(ST_visit_Subroutine_begin(Cur, name, args),
              Op("Subroutine_begin", name, current_scope))

Step_ST_visit_Subroutine_end(ub) ==
    /\ Pass1 /\ In({"Subroutine"}, {"decl", "contains"})
    /\ Commit(ST_visit_Subroutine_end(Cur, ub), Op("Subroutine_end", Top.name, ParentScope))

Step_ST_visit_Function_begin(name, args, return_var, attributes) ==
    /\ Pass1
    /\ In({"none", "Module", "Program", "Subroutine", "Function", "InterfaceProc"},
          {"use", "decl", "contains"})
    /\ Commit(ST_visit_Function_begin(Cur, name, args, return_var, attributes),
              Op("Function_begin", name, current_scope))

Step_ST_visit_Function_end(ub) ==
    /\ Pass1 /\ In({"Function"}, {"decl", "contains"})
    /\ Commit(ST_visit_Function_end(Cur, ub), Op("Function_end", Top.name, ParentScope))

Step_visit_DerivedType_begin(name) ==
    /\ Pass1 /\ In({"Module", "Program", "Subroutine", "Function"}, {"use", "decl"})
    /\ Commit(visit_DerivedType_begin(Enter(Cur, "decl"), name),
              Op("DerivedType_begin", name, current_scope))

Step_visit_DerivedType_end ==
    /\ Pass1 /\ In({"DerivedType"}, {"decl"})
    /\ Commit(visit_DerivedType_end(Cur), Op("DerivedType_end", Top.name, ParentScope))

Step_visit_DerivedTypeProc(symbols) ==
    /\ Pass1 /\ In({"DerivedType"}, {"decl"})
    /\ Commit(visit_DerivedTypeProc(Cur, symbols), Op("DerivedTypeProc", <<>>, 0))

Step_visit_Interface_named(generic_name, items) ==
    /\ Pass1 /\ In({"Module", "Program", "Subroutine", "Function"}, {"use", "decl"})
    /\ Commit(Enter(visit_Interface_named(Cur, generic_name, items), "decl"),
              Op("Interface", generic_name, current_scope))

Step_visit_Interface_begin ==
    /\ Pass1 /\ In({"Module", "Program", "Subroutine", "Function"}, {"use", "decl"})
    /\ Commit(visit_Interface_begin(Enter(Cur, "decl")), Op("Interface_begin", <<>>, 0))

Step_visit_Interface_end ==
    /\ Pass1 /\ In({"Interface"}, {"decl", "closed"})
    /\ Commit(visit_Interface_end(Cur), Op("Interface_end", <<>>, 0))

Step_visit_InterfaceProc_begin ==
    /\ Pass1 /\ In({"Interface"}, {"decl", "closed"})
    /\ Commit(visit_InterfaceProc_begin(Cur), Op("InterfaceProc_begin", <<>>, 0))

Step_visit_InterfaceProc_end ==
    /\ Pass1 /\ In({"InterfaceProc"}, {"closed"})
    /\ Commit(visit_InterfaceProc_end(Cur), Op("InterfaceProc_end", <<>>, 0))

Step_BodyVisitor_begin ==
    /\ Pass1 /\ In({"none"}, {})
    /\ Commit(BodyVisitor_begin(Cur), Op("BodyVisitor_begin", <<>>, 0))

Step_BodyVisitor_end ==
    /\ Pass2 /\ In({"TranslationUnit"}, {"contains"})
    /\ Top.info.todo = <<>>
    /\ Commit(BodyVisitor_end(Cur), Op("BodyVisitor_end", <<>>, 0))

Step_Body_visit_unit_begin ==
    /\ Pass2 /\ In({"TranslationUnit"} \cup UnitKinds, {"contains"})
    /\ Top.info.todo # <<>>
    /\ Commit(Body_visit_unit_begin(Cur),
              Op("unit_begin", Head(Top.info.todo).name, current_scope))

Step_Body_visit_unit_body_end ==
    /\ Pass2 /\ In(UnitKinds \ {"Module"}, {"body"})
    /\ Commit(Body_visit_unit_body_end(Cur), Op("unit_body_end", Top.name, current_scope))

Step_Body_visit_unit_end ==
    /\ Pass2 /\ In(UnitKinds, {"contains"})
    /\ Top.info.todo = <<>>
    /\ Commit(Body_visit_unit_end(Cur), Op("unit_end", Top.name, current_scope))

InBody == Pass2 /\ In(UnitKinds \ {"Module"}, {"body"})

Step_visit_SubroutineCall(sub_name, member, xargs, ub) ==
    /\ InBody
    /\ Commit(Body_loop(visit_SubroutineCall(Cur, sub_name, member, xargs, ub), ub),
              [args |-> xargs] @@ Op("SubroutineCall", sub_name, current_scope))

Step_Body_visit_Assignment(target_x, value_x, ub) ==
    /\ InBody
    /\ Commit(Body_loop(Body_visit_Assignment(Cur, target_x, value_x, ub), ub),
              [target |-> target_x, value |-> value_x]
                  @@ Op("Assignment", target_x.id, current_scope))

Step_Body_visit_plain_stmt(what) ==
    /\ InBody
    /\ Commit(Body_loop(Body_visit_plain_stmt(Cur, what), "crash"),
              Op(what, <<>>, current_scope))

Step_visit_Continue ==
    /\ InBody
    /\ Commit(Body_loop(visit_Continue(Cur), "crash"), Op("Continue", <<>>, current_scope))

\* What the last action was given when it was a statement x
StmtOp(x) == [stmt |-> x] @@ Op(x.s, <<>>, current_scope)

Step_visit_If(x) ==
    /\ InBody
    /\ Commit(Body_loop(visit_If(Cur, x, "crash"), "crash"), StmtOp(x))

Step_visit_WhileLoop(x) ==
    /\ InBody
    /\ x.s = "WhileLoop"
    /\ Commit(Body_loop(visit_WhileLoop(Cur, x, "crash"), "crash"), StmtOp(x))

Step_visit_DoLoop(x) ==
    /\ InBody
    /\ x.s = "DoLoop"
    /\ Commit(Body_loop(visit_DoLoop(Cur, x, "crash"), "crash"), StmtOp(x))

Step_visit_DoConcurrentLoop(x) ==
    /\ InBody
    /\ x.s = "DoConcurrentLoop"
    /\ Commit(Body_loop(visit_DoLoop(Cur, x, "crash"), "crash"), StmtOp(x))

Step_visit_Select(x) ==
    /\ InBody
    /\ Commit(Body_loop(visit_Select(Cur, x, "crash"), "crash"), StmtOp(x))

Step_visit_Associate(target_x, value_x, ub) ==
    /\ InBody
    /\ Commit(Body_loop(visit_Associate(Cur, target_x, value_x, ub), ub),
              [target |-> target_x, value |-> value_x]
              @@ Op("Associate", target_x.id, current_scope))

Step_visit_Open(x) ==
    /\ InBody
    /\ x.s = "Open"
    /\ Commit(Body_loop(visit_Open(Cur, x, "crash"), "crash"), StmtOp(x))

Step_visit_Close(x) ==
    /\ InBody
    /\ x.s = "Close"
    /\ Commit(Body_loop(visit_Close(Cur, x, "crash"), "crash"), StmtOp(x))

Step_visit_Read(x) ==
    /\ InBody
    /\ x.s = "Read"
    /\ Commit(Body_loop(create_read_write_ASR_node(Cur, x, "crash"), "crash"), StmtOp(x))

Step_visit_Write(x) ==
    /\ InBody
    /\ x.s = "Write"
    /\ Commit(Body_loop(create_read_write_ASR_node(Cur, x, "crash"), "crash"), StmtOp(x))

-----------------------------------------------------------------------------
(* The state ast_to_asr starts in *)

\* The global scope handed to ast_to_asr: empty, or what earlier input of an
\* interactive session has left in it
Interactive ==
    LET st == 2
        ft == 3
        s == make_Subroutine_t(st, Nm("s"), <<>>, "Interactive", "Public",
                               "Implementation")
        f == make_Function_t(ft, Nm("f"), <<>>, Ref(ft, Nm("f")), "Interactive",
                             "Public", "Implementation")
        fr == make_Variable_t(ft, Nm("f"), "ReturnVar", "Default", Integer4, NoSym,
                              "Public", "Required")
        x == make_Variable_t(RootScope, Nm("x"), "Local", "Default", Integer4, NoSym,
                             "Public", "Required")
        t0 == <<NewTable(0), NewTable(RootScope), NewTable(RootScope)>>
    IN Put(Put(Put(Put(t0, ft, Nm("f"), fr), RootScope, Nm("f"), f),
               RootScope, Nm("s"), s), RootScope, Nm("x"), x)

Fresh == <<NewTable(0)>>

\* The analysis state a new SymbolTableVisitor has, on the global scope given
Start(tables) ==
    [status |-> "running", error |-> "none", pass |-> 1, symtab |-> tables,
     current_scope |-> RootScope, frames |-> <<>>, ast |-> <<>>,
     current_module_dependencies |-> <<>>, dflt_access |-> "Public",
     assgnd_access |-> EmptyMap, assgnd_presence |-> EmptyMap,
     current_procedure_args |-> <<>>, generic_procedures |-> EmptyMap,
     class_procedures |-> EmptyMap, dt_name |-> <<>>, in_module |-> FALSE,
     is_interface |-> FALSE, current_module |-> <<>>, tmp |-> Null]

\* The analysis is in state S and no node has been counted yet
InitFrom(S) ==
    /\ status = S.status
    /\ error = S.error
    /\ pass = S.pass
    /\ symtab = S.symtab
    /\ current_scope = S.current_scope
    /\ frames = S.frames
    /\ ast = S.ast
    /\ current_module_dependencies = S.current_module_dependencies
    /\ dflt_access = S.dflt_access
    /\ assgnd_access = S.assgnd_access
    /\ assgnd_presence = S.assgnd_presence
    /\ current_procedure_args = S.current_procedure_args
    /\ generic_procedures = S.generic_procedures
    /\ class_procedures = S.class_procedures
    /\ dt_name = S.dt_name
    /\ in_module = S.in_module
    /\ is_interface = S.is_interface
    /\ current_module = S.current_module
    /\ tmp = S.tmp
    /\ last_op = [op |-> "none", name |-> <<>>, scope |-> 0, old |-> NoSym]
    /\ nodes = [unit |-> 0, proc |-> 0, use |-> 0, decl |-> 0, stmt |-> 0, free |-> 0]

SymInit(tables) == InitFrom(Start(tables))

\* Operator lowering on its own: no unit is being analysed
CastStart == CastInit /\ SymInit(Fresh)

SpecCast == CastStart /\ [][CastNext]_vars

-----------------------------------------------------------------------------
(* A library the session has compiled before: what ast_to_asr leaves in the  *)
(* global scope when it is given                                              *)
(*   module m1                                                                *)
(*     integer :: x;  integer, private :: y                                   *)
(*     type t; integer :: c; end type                                         *)
(*     interface g; module procedure s; end interface                         *)
(*   contains                                                                 *)
(*     subroutine s(a); integer, intent(out) :: a; end subroutine             *)
(*   end module                                                               *)
(*   module m2                                                                *)
(*     use m1, only: t, x                                                     *)
(*     type u; type(t) :: d; end type                                         *)
(*   end module                                                               *)

Only(name) == [sym |-> name, rename |-> <<>>]
Renamed(name, local) == [sym |-> name, rename |-> local]

IntegerDecl(attributes, name) ==
    Declaration("Integer", <<>>, "none", attributes, <<VarSym(name)>>)
TypeDecl(type_name, name) ==
    Declaration("Type", type_name, "none", <<>>, <<VarSym(name)>>)

\* One visit of a traversal: the visitor and what it is given
Visit(op, a, b) == [op |-> op, a |-> a, b |-> b]

\* The state after one visit
Visited(S, v) ==
    CASE v.op = "Module_begin" -> ST_visit_Module_begin(S, v.a)
      [] v.op = "Module_end" -> ST_visit_Module_end(S)
      [] v.op = "Program_begin" -> ST_visit_Program_begin(S, v.a)
      [] v.op = "Program_end" -> ST_visit_Program_end(S)
      [] v.op = "Use" -> visit_Use(S, v.a, v.b)
      [] v.op = "Declaration" -> visit_Declaration(S, v.a)
      [] v.op = "DerivedType_begin" -> visit_DerivedType_begin(S, v.a)
      [] v.op = "DerivedType_end" -> visit_DerivedType_end(S)
      [] v.op = "Interface" -> visit_Interface_named(S, v.a, v.b)
      [] v.op = "Subroutine_begin" -> ST_visit_Subroutine_begin(S, v.a, v.b)
      [] v.op = "Subroutine_end" -> ST_visit_Subroutine_end(S, "crash")
      [] v.op = "BodyVisitor_begin" -> BodyVisitor_begin(S)
      [] v.op = "BodyVisitor_end" -> BodyVisitor_end(S)
      [] v.op = "unit_begin" -> Body_visit_unit_begin(S)
      [] v.op = "unit_body_end" -> Body_visit_unit_body_end(S)
      [] v.op = "unit_end" -> Body_visit_unit_end(S)

\* The state after the visits of a traversal, one after the other
RECURSIVE Traverse(_, _)
Traverse(S, visits) ==
    IF visits = <<>> THEN S
    ELSE CHOOSE r \in {Traverse(s1, Tail(visits)) :
                           s1 \in {Visited(s0, Head(visits)) : s0 \in {S}}} : TRUE

\* module m1: integer :: x; integer, private :: y; type t (integer :: c);
\* interface g (module procedure s); subroutine s(a) with integer, intent(out) :: a
LibraryM1 ==
    <<Visit("Module_begin", Nm("m1"), <<>>),
      Visit("Declaration", IntegerDecl(<<>>, Nm("x")), <<>>),
      Visit("Declaration", IntegerDecl(<<Attr("Private")>>, Nm("y")), <<>>),
      Visit("DerivedType_begin", Nm("t"), <<>>),
      Visit("Declaration", IntegerDecl(<<>>, Nm("c")), <<>>),
      Visit("DerivedType_end", <<>>, <<>>),
      Visit("Interface", Nm("g"), <<Nm("s")>>),
      Visit("Subroutine_begin", Nm("s"), <<Nm("a")>>),
      Visit("Declaration", IntegerDecl(<<AttrIntent("Out")>>, Nm("a")), <<>>),
      Visit("Subroutine_end", <<>>, <<>>),
      Visit("Module_end", <<>>, <<>>)>>

\* module m2: use m1, only: t, x; type u (type(t) :: d)
LibraryM2 ==
    <<Visit("Module_begin", Nm("m2"), <<>>),
      Visit("Use", Nm("m1"), <<Only(Nm("t")), Only(Nm("x"))>>),
      Visit("DerivedType_begin", Nm("u"), <<>>),
      Visit("Declaration", TypeDecl(Nm("t"), Nm("d")), <<>>),
      Visit("DerivedType_end", <<>>, <<>>),
      Visit("Module_end", <<>>, <<>>)>>

\* Pass 2 over the two modules: m1 with its subroutine s, then m2
LibraryBodies ==
    <<Visit("BodyVisitor_begin", <<>>, <<>>),
      Visit("unit_begin", <<>>, <<>>),
      Visit("unit_begin", <<>>, <<>>),
      Visit("unit_body_end", <<>>, <<>>),
      Visit("unit_end", <<>>, <<>>),
      Visit("unit_end", <<>>, <<>>),
      Visit("unit_begin", <<>>, <<>>),
      Visit("unit_end", <<>>, <<>>),
      Visit("BodyVisitor_end", <<>>, <<>>)>>

LibraryDone == Traverse(Start(Fresh), LibraryM1 \o LibraryM2 \o LibraryBodies)

Library == LibraryDone.symtab

-----------------------------------------------------------------------------
(* Imports: a translation unit that uses the library.  It may hold a module  *)
(* m3 with a subroutine r, a program p, the use statements, declarations and *)
(* statements below.                                                         *)

UseStmts ==
    {<<Nm("m1"), <<>>>>, <<Nm("m3"), <<>>>>,
     <<Nm("m1"), <<Only(Nm("g"))>>>>, <<Nm("m1"), <<Only(Nm("x"))>>>>,
     <<Nm("m2"), <<Only(Nm("u")), Renamed(Nm("x"), Nm("y"))>>>>,
     <<Nm("lfortran_intrinsic_kind"), <<>>>>}

UseDecls ==
    {IntegerDecl(<<Attr("Private")>>, Nm("y")),
     Declaration("Integer", <<>>, "none", <<Attr("Allocatable")>>,
                 <<VarSymInit(Nm("z"), InitCall(Nm("size")))>>),
     Declaration("Integer", <<>>, "none", <<>>,
                 <<VarSymInit(Nm("a"), InitCall(Nm("sum")))>>),
     TypeDecl(Nm("u"), Nm("v"))}

UseAssignments ==
    {<<Member(Nm("v"), Nm("d")), Num>>, <<Name(Nm("z")), Call(Nm("size"))>>,
     <<Name(Nm("z")), Call(Nm("sum"))>>, <<Name(Nm("z")), Call(Nm("kind"))>>}

\* subroutine r of module m3
Step_module_subroutine ==
    /\ In({"Module"}, {"use", "decl"})
    /\ Step_ST_visit_Subroutine_begin(Nm("r"), <<>>)

UseInit == CastIdle /\ InitFrom(Start(Library))

UseNext ==
    \/ Step_ST_visit_Module_begin(Nm("m3"))
    \/ Step_ST_visit_Module_end
    \/ Step_ST_visit_Program_begin(Nm("p"))
    \/ Step_ST_visit_Program_end
    \/ \E u \in UseStmts : Step_visit_Use(u[1], u[2])
    \/ \E x \in UseDecls : Step_visit_Declaration(x)
    \/ Step_module_subroutine
    \/ Step_ST_visit_Subroutine_end("crash")
    \/ Step_BodyVisitor_begin
    \/ Step_BodyVisitor_end
    \/ Step_Body_visit_unit_begin
    \/ Step_Body_visit_unit_body_end
    \/ Step_Body_visit_unit_end
    \/ Step_visit_SubroutineCall(Nm("g"), <<>>, <<Name(Nm("z"))>>, "crash")
    \/ \E a \in UseAssignments : Step_Body_visit_Assignment(a[1], a[2], "crash")

SpecUse == UseInit /\ [][UseNext]_vars

-----------------------------------------------------------------------------
(* Declarations: a translation unit of declarations that reuse names.  The   *)
(* global scope is empty or holds what an interactive session left in it; a  *)
(* module s, a program s, subroutines f and s, a function f (with or without *)
(* a prefix type and result(x)) and the variables f and x may be declared,   *)
(* at the top level or nested.                                               *)

DeclVariables == {Nm("f"), Nm("x")}
DeclSubroutines == {Nm("f"), Nm("s")}
DeclResults == {<<>>, Nm("x")}
DeclPrefixes == {<<>>, <<AttrType("Integer")>>}

DeclInit == CastIdle /\ \E tables \in {Fresh, Interactive} : SymInit(tables)

DeclNext ==
    \/ Step_ST_visit_Module_begin(Nm("s"))
    \/ Step_ST_visit_Module_end
    \/ Step_ST_visit_Program_begin(Nm("s"))
    \/ Step_ST_visit_Program_end
    \/ \E n \in DeclVariables : Step_visit_Declaration(IntegerDecl(<<>>, n))
    \/ \E n \in DeclSubroutines : Step_ST_visit_Subroutine_begin(n, <<>>)
    \/ \E ub \in UBOutcomes : Step_ST_visit_Subroutine_end(ub)
    \/ \E r \in DeclResults, a \in DeclPrefixes :
           Step_ST_visit_Function_begin(Nm("f"), <<>>, r, a)
    \/ \E ub \in UBOutcomes : Step_ST_visit_Function_end(ub)

SpecDecl == DeclInit /\ [][DeclNext]_vars

-----------------------------------------------------------------------------
(* Bodies: a translation unit of a program p, a subroutine s(a) and a        *)
(* function f, at the top level or nested, with the declarations             *)
(*   integer, allocatable :: x                                               *)
(*   integer, allocatable, intent(out) :: a                                  *)
(*   integer :: y                                                            *)
(* and the statements  call s(x),  print,  continue,  x = sin(y) and         *)
(* y = present(x)  in their bodies.                                          *)

BodyDecls ==
    {IntegerDecl(<<Attr("Allocatable")>>, Nm("x")),
     IntegerDecl(<<Attr("Allocatable"), AttrIntent("Out")>>, Nm("a")),
     IntegerDecl(<<>>, Nm("y"))}

BodyAssignments ==
    {<<Name(Nm("x")), Call(Nm("sin"))>>, <<Name(Nm("y")), Call(Nm("present"))>>}

BodyInit == CastIdle /\ SymInit(Fresh)

BodyNext ==
    \/ Step_ST_visit_Program_begin(Nm("p"))
    \/ Step_ST_visit_Program_end
    \/ Step_ST_visit_Subroutine_begin(Nm("s"), <<Nm("a")>>)
    \/ Step_ST_visit_Subroutine_end("crash")
    \/ Step_ST_visit_Function_begin(Nm("f"), <<>>, <<>>, <<AttrType("Integer")>>)
    \/ Step_ST_visit_Function_end("crash")
    \/ \E x \in BodyDecls : Step_visit_Declaration(x)
    \/ Step_BodyVisitor_begin
    \/ Step_BodyVisitor_end
    \/ Step_Body_visit_unit_begin
    \/ Step_Body_visit_unit_body_end
    \/ Step_Body_visit_unit_end
    \/ \E ub \in UBOutcomes :
           Step_visit_SubroutineCall(Nm("s"), <<>>, <<Name(Nm("x"))>>, ub)
    \/ \E a \in BodyAssignments : Step_Body_visit_Assignment(a[1], a[2], "crash")
    \/ Step_Body_visit_plain_stmt("Print")
    \/ Step_visit_Continue

SpecBody == BodyInit /\ [][BodyNext]_vars

-----------------------------------------------------------------------------
(* Statements: Pass 2 over the translation unit                              *)
(*   subroutine s(a); integer, allocatable, intent(out) :: a; end subroutine *)
(*   program p                                                               *)
(*     integer, allocatable :: x;  integer :: i;  real :: r                  *)
(*     character :: c;  integer, pointer :: ip                               *)
(*   end program                                                             *)
(* with constructs, pointer associations and I/O statements in the bodies.   *)

VarDecl(vartype, attributes, name) ==
    Declaration(vartype, <<>>, "none", attributes, <<VarSym(name)>>)

\* Pass 1 over the translation unit
StmtUnits ==
    <<Visit("Subroutine_begin", Nm("s"), <<Nm("a")>>),
      Visit("Declaration",
            IntegerDecl(<<Attr("Allocatable"), AttrIntent("Out")>>, Nm("a")), <<>>),
      Visit("Subroutine_end", <<>>, <<>>),
      Visit("Program_begin", Nm("p"), <<>>),
      Visit("Declaration", IntegerDecl(<<Attr("Allocatable")>>, Nm("x")), <<>>),
      Visit("Declaration", IntegerDecl(<<>>, Nm("i")), <<>>),
      Visit("Declaration", VarDecl("Real", <<>>, Nm("r")), <<>>),
      Visit("Declaration", VarDecl("Character", <<>>, Nm("c")), <<>>),
      Visit("Declaration", IntegerDecl(<<Attr("Pointer")>>, Nm("ip")), <<>>),
      Visit("Program_end", <<>>, <<>>)>>

StmtPass1 == Traverse(Start(Fresh), StmtUnits)

\* call s(x)
CallSX == CallStmt(Nm("s"), <<Name(Nm("x"))>>)

StmtIfs ==
    {IfStmt(Num, <<CallSX>>, <<>>), IfStmt(Num, <<ContinueStmt>>, <<PrintStmt, CallSX>>),
     IfStmt(Num, <<IfStmt(Num, <<CallSX>>, <<>>)>>, <<>>)}

StmtLoops ==
    {WhileLoopStmt(Num, <<CallSX>>),
     DoLoopStmt(Nm("i"), <<Num, Num>>, <<CallSX>>),
     DoLoopStmt(Nm("i"), <<Num>>, <<CallSX>>),
     DoConcurrentLoopStmt(Nm("i"), <<Num, Num>>, <<PrintStmt, CallSX>>)}

StmtSelects ==
    {SelectStmt(Num, <<CaseBlock(<<Num>>, <<CallSX>>)>>),
     SelectStmt(Num, <<CaseBlock(<<Num>>, <<PrintStmt>>), DefaultBlock(<<PrintStmt>>)>>),
     SelectStmt(Num, <<DefaultBlock(<<PrintStmt>>), DefaultBlock(<<PrintStmt>>)>>),
     SelectStmt(Num, <<DefaultBlock(<<PrintStmt>>), DefaultBlock(<<>>)>>),
     SelectStmt(Num, <<DefaultBlock(<<>>), DefaultBlock(<<PrintStmt>>)>>),
     SelectStmt(Num, <<DefaultBlock(<<ContinueStmt>>), DefaultBlock(<<PrintStmt>>)>>),
     SelectStmt(Name(Nm("r")), <<DefaultBlock(<<>>)>>)}

StmtTargets == {Name(Nm("ip")), Name(Nm("i"))}
StmtValues == {Name(Nm("i")), Name(Nm("r")), Name(Nm("ip"))}

StmtUnitArgs == {<<>>, <<Name(Nm("i"))>>, <<Name(Nm("c"))>>}
StmtUnitKwargs == {<<>>, <<Kw("unit", Name(Nm("i")))>>, <<Kw("unit", Name(Nm("c")))>>}

StmtReadWriteArgs ==
    {<<>>, <<Name(Nm("i"))>>, <<Name(Nm("i")), Name(Nm("c"))>>, <<Star, Star>>,
     <<Name(Nm("c")), Name(Nm("c"))>>}
StmtReadWriteKwargs ==
    {<<>>, <<Kw("unit", Name(Nm("i")))>>, <<Kw("fmt", Name(Nm("c")))>>,
     <<Kw("unit", Name(Nm("i"))), Kw("fmt", Name(Nm("c")))>>}

StmtInit == CastIdle /\ InitFrom(StmtPass1)

StmtNext ==
    \/ Step_BodyVisitor_begin
    \/ Step_BodyVisitor_end
    \/ Step_Body_visit_unit_begin
    \/ Step_Body_visit_unit_body_end
    \/ Step_Body_visit_unit_end
    \/ Step_visit_SubroutineCall(Nm("s"), <<>>, <<Name(Nm("x"))>>, "crash")
    \/ Step_Body_visit_plain_stmt("Print")
    \/ \E x \in StmtIfs : Step_visit_If(x)
    \/ \E x \in StmtLoops : Step_visit_WhileLoop(x)
    \/ \E x \in StmtLoops : Step_visit_DoLoop(x)
    \/ \E x \in StmtLoops : Step_visit_DoConcurrentLoop(x)
    \/ \E x \in StmtSelects : Step_visit_Select(x)
    \/ \E t \in StmtTargets, v \in StmtValues, ub \in UBOutcomes :
           Step_visit_Associate(t, v, ub)
    \/ \E a \in StmtUnitArgs, k \in StmtUnitKwargs :
           \/ Step_visit_Open(IoStmt("Open", a, k))
           \/ Step_visit_Close(IoStmt("Close", a, k))
    \/ \E a \in StmtReadWriteArgs, k \in StmtReadWriteKwargs :
           \/ Step_visit_Read(IoStmt("Read", a, k))
           \/ Step_visit_Write(IoStmt("Write", a, k))

SpecStmt == StmtInit /\ [][StmtNext]_vars

-----------------------------------------------------------------------------
(* Calls and member references: a translation unit on top of the library.    *)
(* module m3 holds the generic g over s1(a) with integer :: a and s2(a) with *)
(* real :: a; program p uses m3 and the type u of m2, declares the types t1  *)
(* (real :: c) and t2 (type(t1) :: d) and variables of these types.          *)

CallUnits ==
    <<Visit("Module_begin", Nm("m3"), <<>>),
      Visit("Interface", Nm("g"), <<Nm("s1"), Nm("s2")>>),
      Visit("Subroutine_begin", Nm("s1"), <<Nm("a")>>),
      Visit("Declaration", IntegerDecl(<<>>, Nm("a")), <<>>),
      Visit("Subroutine_end", <<>>, <<>>),
      Visit("Subroutine_begin", Nm("s2"), <<Nm("a")>>),
      Visit("Declaration", VarDecl("Real", <<>>, Nm("a")), <<>>),
      Visit("Subroutine_end", <<>>, <<>>),
      Visit("Module_end", <<>>, <<>>),
      Visit("Program_begin", Nm("p"), <<>>),
      Visit("Use", Nm("m3"), <<>>),
      Visit("Use", Nm("m2"), <<Only(Nm("u"))>>),
      Visit("DerivedType_begin", Nm("t1"), <<>>),
      Visit("Declaration", VarDecl("Real", <<>>, Nm("c")), <<>>),
      Visit("DerivedType_end", <<>>, <<>>),
      Visit("DerivedType_begin", Nm("t2"), <<>>),
      Visit("Declaration", TypeDecl(Nm("t1"), Nm("d")), <<>>),
      Visit("DerivedType_end", <<>>, <<>>),
      Visit("Declaration", TypeDecl(Nm("t2"), Nm("w")), <<>>),
      Visit("Declaration", TypeDecl(Nm("u"), Nm("q")), <<>>),
      Visit("Declaration", IntegerDecl(<<>>, Nm("i")), <<>>),
      Visit("Declaration", VarDecl("Real", <<>>, Nm("r")), <<>>),
      Visit("Declaration", IntegerDecl(<<Attr("Pointer")>>, Nm("ip")), <<>>),
      Visit("Declaration", VarDecl("Character", <<>>, Nm("h")), <<>>),
      Visit("Program_end", <<>>, <<>>)>>

CallPass1 == Traverse(Start(Library), CallUnits)

\* The procedure names and the argument lists of the calls
CallNames == {Nm("g"), Nm("s1"), Nm("s2")}
CallArgs ==
    {<<Name(Nm("i"))>>, <<Name(Nm("r"))>>, <<Name(Nm("ip"))>>,
     <<Name(Nm("h"))>>, <<Name(Nm("a"))>>, <<Name(Nm("i")), Name(Nm("r"))>>}

\* w%d = 1, q%d = 1, w%d = q%d, i = 1, w%i = 1, w%z = 1
CallAssignments ==
    {<<Member(Nm("w"), Nm("d")), Num>>, <<Member(Nm("q"), Nm("d")), Num>>,
     <<Member(Nm("w"), Nm("d")), Member(Nm("q"), Nm("d"))>>, <<Name(Nm("i")), Num>>,
     <<Member(Nm("w"), Nm("i")), Num>>, <<Member(Nm("w"), Nm("z")), Num>>}

CallInit == CastIdle /\ InitFrom(CallPass1)

CallNext ==
    \/ Step_BodyVisitor_begin
    \/ Step_BodyVisitor_end
    \/ Step_Body_visit_unit_begin
    \/ Step_Body_visit_unit_body_end
    \/ Step_Body_visit_unit_end
    \/ \E n \in CallNames, xargs \in CallArgs :
           Step_visit_SubroutineCall(n, <<>>, xargs, "crash")
    \/ \E a \in CallAssignments : Step_Body_visit_Assignment(a[1], a[2], "crash")

SpecCall == CallInit /\ [][CallNext]_vars

-----------------------------------------------------------------------------
(* Types: Pass 1 over a program p that declares a derived type t and         *)
(* variables and members a and x of every base type, with and without the    *)
(* pointer attribute.                                                        *)

TypeVariables == {Nm("a"), Nm("x")}
TypeVartypes == {"Integer", "Real", "Complex", "Logical", "Character"}
TypeAttributes == {<<>>, <<Attr("Pointer")>>}

TypeDecls ==
    {VarDecl(t, at, n) : t \in TypeVartypes, at \in TypeAttributes, n \in TypeVariables}
    \cup {Declaration("Type", Nm("t"), "none", at, <<VarSym(n)>>) :
              at \in TypeAttributes, n \in TypeVariables}

TypeInit == CastIdle /\ SymInit(Fresh)

TypeNext ==
    \/ Step_ST_visit_Program_begin(Nm("p"))
    \/ Step_ST_visit_Program_end
    \/ \E x \in TypeDecls : Step_visit_Declaration(x)
    \/ Step_visit_DerivedType_begin(Nm("t"))
    \/ Step_visit_DerivedType_end

SpecType == TypeInit /\ [][TypeNext]_vars

-----------------------------------------------------------------------------
(* Units: Pass 1 over a translation unit of modules m1 and m2, a program p,  *)
(* subroutines s(a) and f, derived types t and x, the generic interface g    *)
(* over s, interface blocks of interface procedures, the declarations        *)
(* "integer :: a", "integer :: x", "private", "private :: x" and             *)
(* "optional :: x", and the binding "procedure :: f => s".  Every            *)
(* declaration is inside a unit.                                             *)

UnitModules == {Nm("m1"), Nm("m2")}
UnitVariables == {Nm("a"), Nm("x")}
UnitTypeNames == {Nm("t"), Nm("x")}
UnitSubroutines == {<<Nm("s"), <<Nm("a")>>>>, <<Nm("f"), <<>>>>}

\* private;  private :: x;  optional :: x
UnitAttributeDecls ==
    {Declaration("none", <<>>, "none", <<Attr("Private")>>, <<>>),
     Declaration("none", <<>>, "none", <<Attr("Private")>>, <<VarSym(Nm("x"))>>),
     Declaration("none", <<>>, "none", <<Attr("Optional")>>, <<VarSym(Nm("x"))>>)}

UnitDecls == {IntegerDecl(<<>>, n) : n \in UnitVariables} \cup UnitAttributeDecls

UnitInit == CastIdle /\ SymInit(Fresh)

UnitNext ==
    \/ \E m \in UnitModules : Step_ST_visit_Module_begin(m)
    \/ Step_ST_visit_Module_end
    \/ Step_ST_visit_Program_begin(Nm("p"))
    \/ Step_ST_visit_Program_end
    \/ frames # <<>> /\ \E x \in UnitDecls : Step_visit_Declaration(x)
    \/ \E s \in UnitSubroutines : Step_ST_visit_Subroutine_begin(s[1], s[2])
    \/ Step_ST_visit_Subroutine_end("crash")
    \/ \E t \in UnitTypeNames : Step_visit_DerivedType_begin(t)
    \/ Step_visit_DerivedType_end
    \/ Step_visit_DerivedTypeProc(<<Renamed(Nm("s"), Nm("f"))>>)
    \/ Step_visit_Interface_named(Nm("g"), <<Nm("s")>>)
    \/ Step_visit_Interface_begin
    \/ Step_visit_Interface_end
    \/ Step_visit_InterfaceProc_begin
    \/ Step_visit_InterfaceProc_end

SpecUnit == UnitInit /\ [][UnitNext]_vars

-----------------------------------------------------------------------------
(* Properties of the implicit conversion engine *)

OperatorVisitors == {"BinOp", "Compare", "BoolOp"}

\* The family index of a type tag, and the priority of a type
FamilyOf(t) == t.type % (num_types \div 2)
PriorityOf(t) == type_priority(FamilyOf(t))

\* An operator visitor ran its cast insertion (it was not rejected before)
CastRan == pc = "done" /\ visitor.name \in OperatorVisitors /\ conversion_cand # "none"

\* C1: whenever the lowering of a binary, comparison or boolean operator ends
\* with a node, the two operands of that node have equal types (in the sense
\* of the visitors' own assertion: the same tag, or a plain/pointer pair).
C1_OperandTypesEqual ==
    (pc = "done" /\ visitor.name \in OperatorVisitors /\ outcome = "node")
        => check_equal_type(expr_type(asr.left), expr_type(asr.right))

\* C2 as stated: the operand of the higher priority is the destination and the
\* other one is cast; on a tie the right operand is the destination and the
\* left operand is cast.
C2_TieCastsLeft ==
    CastRan =>
        LET lp == PriorityOf(expr_type(operands[1]))
            rp == PriorityOf(expr_type(operands[2]))
        IN /\ lp > rp => (conversion_cand = "right" /\ dest_type = expr_type(operands[1]))
           /\ lp < rp => (conversion_cand = "left" /\ dest_type = expr_type(operands[2]))
           /\ lp = rp => (conversion_cand = "left" /\ dest_type = expr_type(operands[2])
                          /\ source_type = expr_type(operands[1]))

\* C2 amended: the operand of the higher priority is the destination and the
\* other one is cast; on a tie (both -1 included) the LEFT operand is the
\* destination and the RIGHT operand is the one that is cast.
C2_TieCastsRight ==
    CastRan =>
        LET lp == PriorityOf(expr_type(operands[1]))
            rp == PriorityOf(expr_type(operands[2]))
        IN /\ lp > rp => (conversion_cand = "right" /\ dest_type = expr_type(operands[1]))
           /\ lp < rp => (conversion_cand = "left" /\ dest_type = expr_type(operands[2]))
           /\ lp = rp => (conversion_cand = "right" /\ dest_type = expr_type(operands[1])
                          /\ source_type = expr_type(operands[2]))
           /\ conversion_cand = "right" => right.node \in {"ImplicitCast", "Operand"}
           /\ (conversion_cand = "right" /\ outcome # "error") => left = operands[1]
           /\ (conversion_cand = "left" /\ outcome # "error") => right = operands[2]

\* C2 witness: a tie between two integer operands of different kinds, where
\* the right operand has been wrapped in a cast to the left operand's type
C2_Witness ==
    /\ CastRan
    /\ visitor.name = "BinOp"
    /\ expr_type(operands[1]) = MkType(Integer_t, 4)
    /\ expr_type(operands[2]) = MkType(Integer_t, 8)
    /\ right.node = "ImplicitCast"
    /\ expr_type(right) = MkType(Integer_t, 4)
    /\ left = operands[1]

\* What the rule table is said to hold for source index s and destination tag d
C3_Expected(s, d) ==
    LET df == d % (num_types \div 2)
    IN CASE s = Integer_t /\ df = Integer_t -> "IntegerToInteger"
         [] s = Integer_t /\ df = Real_t -> "IntegerToReal"
         [] s = Integer_t /\ df = Complex_t -> "IntegerToComplex"
         [] s = Integer_t /\ df = Logical_t -> "IntegerToLogical"
         [] s = Integer_t /\ df \in {Character_t, Derived_t} -> "error"
         [] s = Real_t /\ df = Integer_t -> "RealToInteger"
         [] s = Real_t /\ df = Real_t -> "RealToReal"
         [] s = Real_t /\ df = Complex_t -> "RealToComplex"
         [] s = Complex_t /\ df = Complex_t -> "ComplexToComplex"
         [] OTHER -> "default"

\* The expression set_converted_value was applied to, before and after
Converted == IF conversion_cand = "left" THEN left ELSE right
ConvertedBefore == IF conversion_cand = "left" THEN operands[1] ELSE operands[2]

\* C3: whenever cast insertion consults the rule table for source index s and
\* destination tag d, the outcome is the one the table is said to hold:
\* IllegalCoercion for the error pairs, a cast of the named kind for the cast
\* pairs, and otherwise neither a cast nor an error.
C3_RuleTable ==
    (pc = "done" /\ looked_up # <<>>) =>
        LET e == C3_Expected(looked_up[1], looked_up[2])
        IN /\ e = "error" => outcome = "error"
           /\ e = "default" => (outcome # "error" /\ Converted = ConvertedBefore)
           /\ e \notin {"error", "default"} =>
                 /\ outcome # "error"
                 /\ Converted.node = "ImplicitCast"
                 /\ Converted.cast_kind = e

\* C3 witness: an Integer value assigned to a CharacterPointer target is rejected
C3_Witness ==
    /\ pc = "done"
    /\ visitor.name = "Assignment"
    /\ looked_up # <<>>
    /\ looked_up[1] = Integer_t
    /\ looked_up[2] = CharacterPointer_t
    /\ outcome = "error"

\* The call of set_converted_value(S, D) had S and D of one family
SameFamilyCall ==
    /\ pc = "done"
    /\ conversion_cand # "none"
    /\ (source_type.type = dest_type.type \/ is_same_type_pointer(source_type, dest_type))

\* C4 as stated: for S and D of one family no cast is inserted when the kinds
\* are equal; when exactly one of them is a pointer the pointer side is the
\* source of the lookup and an inserted cast carries the non-pointer type.
C4_PointerSideIsSource ==
    SameFamilyCall =>
        /\ source_type.kind = dest_type.kind => (Converted = ConvertedBefore /\ looked_up = <<>>)
        /\ (is_pointer(source_type) # is_pointer(dest_type) /\ looked_up # <<>>) =>
              /\ is_pointer(looked_up[3])
              /\ Converted.node = "ImplicitCast" => ~is_pointer(expr_type(Converted))

\* C4 amended: for S and D of one family no cast is inserted when the kinds
\* are equal; when exactly one of them is a pointer, the two are arranged so
\* that the NON-pointer side is the source and the pointer side the
\* destination (they are swapped when S is the pointer), and a cast inserted
\* because the kinds differ carries the POINTER type as its type.
C4_PointerSideIsDest ==
    SameFamilyCall =>
        /\ source_type.kind = dest_type.kind => (Converted = ConvertedBefore /\ looked_up = <<>>)
        /\ (is_pointer(source_type) # is_pointer(dest_type) /\ source_type.kind # dest_type.kind) =>
              /\ looked_up # <<>>
              /\ ~is_pointer(looked_up[3])
              /\ is_pointer(looked_up[4])
              /\ looked_up[3] = (IF is_pointer(source_type) THEN dest_type ELSE source_type)
              /\ looked_up[4] = (IF is_pointer(source_type) THEN source_type ELSE dest_type)
              /\ Converted.node = "ImplicitCast" => expr_type(Converted) = looked_up[4]

\* C4 witness: an IntegerPointer(8) value assigned to an Integer(4) variable:
\* the two are swapped and the cast carries the pointer type
C4_Witness ==
    /\ SameFamilyCall
    /\ visitor.name = "Assignment"
    /\ source_type = MkType(IntegerPointer_t, 8)
    /\ dest_type = MkType(Integer_t, 4)
    /\ Converted.node = "ImplicitCast"
    /\ expr_type(Converted) = MkType(IntegerPointer_t, 8)

-----------------------------------------------------------------------------
(* Properties of imports *)

Scopes == 1 .. Len(symtab)

\* The entry of scope i under name n
Entry(i, n) == symtab[i].scope[n]

\* Scope i holds under name n an ExternalSymbol of module m for its symbol o
HoldsExternal(i, n, m, o) ==
    /\ Has(symtab, i, n)
    /\ Entry(i, n).kind = "ExternalSymbol"
    /\ Entry(i, n).module_name = m
    /\ Entry(i, n).original_name = o

\* C5: at every point of the analysis, no ExternalSymbol that a scope holds
\* has another ExternalSymbol as its target.
C5_NoExternalChain ==
    \A i \in Scopes : \A n \in DOMAIN symtab[i].scope :
        Entry(i, n).kind = "ExternalSymbol" => Entry(i, n).external.kind # "ExternalSymbol"

\* C5 witness: the analysis is complete and one scope holds y, imported from
\* m2 which had it from m1 (re-packed); g@s, the specific subroutine of a
\* generic call through the external g; 1_m1_t, added by the member access
\* v%d; and size, imported on demand from its intrinsic module.
C5_Witness ==
    /\ status = "done"
    /\ \E i \in Scopes :
          /\ HoldsExternal(i, Nm("y"), Nm("m1"), Nm("x"))
          /\ HoldsExternal(i, <<"g", "@", "s">>, Nm("m1"), Nm("s"))
          /\ HoldsExternal(i, <<"1_", "m1", "_", "t">>, Nm("m1"), Nm("t"))
          /\ HoldsExternal(i, Nm("size"), Nm("lfortran_intrinsic_array"), Nm("size"))

NoDuplicates(vec) == \A i, j \in 1 .. Len(vec) : i # j => vec[i] # vec[j]

\* C6: the dependency list of the unit being visited, and that of every
\* module and program of the symbol table, names each module at most once.
C6_NoDuplicateDependencies ==
    /\ NoDuplicates(current_module_dependencies)
    /\ \A i \in Scopes : \A n \in DOMAIN symtab[i].scope :
          Entry(i, n).kind \in {"Module", "Program"} => NoDuplicates(Entry(i, n).dependencies)

\* C6 witness: module m3 has used m1 twice (for g and for x) and has called
\* two functions of lfortran_intrinsic_array, size in a declaration (Pass 1)
\* and sum in a statement of its subroutine r (Pass 2); it depends on both.
C6_Witness ==
    /\ status = "done"
    /\ Has(symtab, RootScope, Nm("m3"))
    /\ Entry(RootScope, Nm("m3")).kind = "Module"
    /\ present(Entry(RootScope, Nm("m3")).dependencies, Nm("m1"))
    /\ present(Entry(RootScope, Nm("m3")).dependencies, Nm("lfortran_intrinsic_array"))
    /\ \E i \in Scopes :
          /\ HoldsExternal(i, Nm("g"), Nm("m1"), Nm("g"))
          /\ HoldsExternal(i, Nm("x"), Nm("m1"), Nm("x"))
          /\ HoldsExternal(i, Nm("size"), Nm("lfortran_intrinsic_array"), Nm("size"))
    /\ \E i \in Scopes :
          HoldsExternal(i, Nm("sum"), Nm("lfortran_intrinsic_array"), Nm("sum"))

\* The last action was "use M" without an only-list, in scope last_op.scope,
\* and M is a module of the global scope
UsedAll ==
    /\ last_op.op = "Use"
    /\ last_op.symbols = <<>>
    /\ Has(symtab, RootScope, last_op.name)
    /\ Entry(RootScope, last_op.name).kind = "Module"

\* C9: "use M" without an only-list completes, and the current scope then
\* holds an ExternalSymbol for every public symbol of M and for no private
\* symbol of M.
C9_UseAllImportsPublicOnly ==
    UsedAll =>
        LET m == Entry(RootScope, last_op.name)
            here == last_op.scope
        IN /\ status = "running"
           /\ \A n \in DOMAIN symtab[m.symtab].scope :
                 LET item == Entry(m.symtab, n)
                 IN IF item.access = "Public"
                    THEN HoldsExternal(here, n, m.name, n)
                    ELSE ~HoldsExternal(here, n, m.name, n)

-----------------------------------------------------------------------------
(* Properties of declarations *)

\* C7: for every Function symbol that a scope holds, the return variable is
\* an entry of the function's own scope, is a Variable and has intent
\* return_var.
C7_ReturnVarInOwnScope ==
    \A i \in Scopes : \A n \in DOMAIN symtab[i].scope :
        Entry(i, n).kind = "Function" =>
            LET fn == Entry(i, n)
                rv == fn.return_var
            IN /\ rv.tab = fn.symtab
               /\ Has(symtab, rv.tab, rv.name)
               /\ Entry(rv.tab, rv.name).kind = "Variable"
               /\ Entry(rv.tab, rv.name).intent = "ReturnVar"

\* The last action was the visitor op, and the scope it inserts into held an
\* entry of the declared name before
Redeclares(op) == last_op.op = op /\ last_op.old # NoSym

\* What the target scope holds under the declared name now
Now ==
    IF Has(symtab, last_op.scope, last_op.name) THEN Entry(last_op.scope, last_op.name)
    ELSE NoSym

\* The declaration went through: the entry is the new symbol
Replaced(kind) ==
    /\ status = "running"
    /\ Now.kind = kind
    /\ kind = "Variable" => Now.parent_symtab = last_op.scope
    /\ kind # "Variable" => (Now.abi = "Source" /\ Now.symtab # last_op.old.symtab)

\* The declaration was refused with msg and the old entry is still there
Failed(msg) == status = "error" /\ error = msg /\ Now = last_op.old

\* visit_Function gave up on the return variable, before the insertion
ReturnFailed ==
    \/ status = "crashed"
    \/ /\ status = "error"
       /\ error \in {"Return type not specified", "Cannot specify the return type twice"}

TargetIsRoot == symtab[last_op.scope].parent = 0

\* The old entry is a procedure with interactive ABI
OldIsInteractive ==
    last_op.old.kind \in {"Subroutine", "Function"} /\ last_op.old.abi = "Interactive"

AlreadyDefinedErrors ==
    {"Symbol already declared", "Subroutine already defined", "Function already defined",
     "Module already defined", "Program already defined"}

InsertedKind ==
    [Declaration |-> "Variable", Subroutine_end |-> "Subroutine",
     Function_end |-> "Function", Module_end |-> "Module", Program_end |-> "Program"]

-----------------------------------------------------------------------------
(* Properties of bodies *)

\* The last action closed the body of the unit last_op.name, whose scope is
\* last_op.scope
BodyLowered == last_op.op = "unit_body_end" /\ status = "running"

\* The unit whose body was closed, as the scope around it holds it
LoweredUnit == Entry(symtab[last_op.scope].parent, last_op.name)

\* The variables of scope i with storage allocatable and intent local
AllocatableLocals(i) ==
    {n \in DOMAIN symtab[i].scope :
        /\ Entry(i, n).kind = "Variable"
        /\ Entry(i, n).storage = "Allocatable"
        /\ Entry(i, n).intent = "Local"}

\* C10: when Pass 2 has lowered the body of a program, subroutine or
\* function: if the scope of the unit holds a variable with storage
\* allocatable and intent local, the last statement of the body is an
\* ImplicitDeallocate that lists exactly those variables, each once, and it
\* is the only one that was appended; if the scope holds none, the body does
\* not end with an ImplicitDeallocate.
C10_ImplicitDeallocateLast ==
    BodyLowered =>
        LET body == LoweredUnit.body
            locals == AllocatableLocals(last_op.scope)
            last == body[Len(body)]
            appended == {i \in 1 .. Len(body) :
                            body[i].node = "ImplicitDeallocate" /\ body[i].origin = "scope"}
        IN IF locals # {}
           THEN /\ Len(body) > 0
                /\ last.node = "ImplicitDeallocate"
                /\ {last.syms[i] : i \in 1 .. Len(last.syms)} = locals
                /\ Len(last.syms) = Cardinality(locals)
                /\ appended = {Len(body)}
           ELSE /\ appended = {}
                /\ Len(body) > 0 => last.node # "ImplicitDeallocate"

\* C10 witness: the body of a unit with the allocatable local x and two
\* statements, of which a call with an ImplicitDeallocate before it, ends
\* with the ImplicitDeallocate of x
C10_Witness ==
    /\ BodyLowered
    /\ AllocatableLocals(last_op.scope) = {Nm("x")}
    /\ Len(LoweredUnit.body) = 4
    /\ LoweredUnit.body[1].node = "ImplicitDeallocate"
    /\ LoweredUnit.body[2].node = "SubroutineCall"
    /\ LoweredUnit.body[4] = ImplicitDeallocate(<<Nm("x")>>, "scope")

-----------------------------------------------------------------------------
(* Properties of statements *)

\* The actual arguments of a lowered call that are allocatable variables
\* bound to a formal argument of intent out, in the order of the call
OutAllocatables(call) ==
    call_allocatables(symtab, call, symbol_get_past_external(call.name), 1)

\* Every call in body, and in the bodies of the constructs in it, that has an
\* allocatable actual argument for an intent(out) formal one stands directly
\* behind an ImplicitDeallocate of those arguments
RECURSIVE CallsGuarded(_)
CallsGuarded(body) ==
    \A k \in 1 .. Len(body) :
        LET st == body[k]
        IN /\ (/\ st.node = "SubroutineCall"
               /\ CallWellFormed(symtab, st)
               /\ Len(OutAllocatables(st)) > 0) =>
                  /\ k > 1
                  /\ body[k - 1].node = "ImplicitDeallocate"
                  /\ body[k - 1].syms = OutAllocatables(st)
           /\ st.node \in ConstructNodes =>
                  CallsGuarded(st.body) /\ CallsGuarded(st.orelse)

\* C11: when Pass 2 has lowered the body of a unit, every subroutine call in
\* it, at any depth of nesting, that passes an allocatable variable for a
\* formal argument of intent out has an ImplicitDeallocate of those variables
\* directly before it.
C11_DeallocateBeforeCallAtAnyDepth ==
    BodyLowered => CallsGuarded(LoweredUnit.body)

\* The symbol an expression of the last statement names, and its type
Named(x) == symbol_get_past_external(resolve_symbol(symtab, last_op.scope, x.id))
NamedType(x) == Named(x).type
\* The expression names a variable that is declared
Declared(x) == x.e = "Name" /\ Named(x).kind = "Variable"

\* C13: lowering p => v yields an Associate node exactly when p is a pointer,
\* v is not, and both have the same base type; in every other case the
\* statement is refused with a semantic error.
C13_AssociateOrError ==
    (/\ last_op.op = "Associate"
     /\ Declared(last_op.target)
     /\ Declared(last_op.value)) =>
        LET t == NamedType(last_op.target)
            v == NamedType(last_op.value)
        IN IF is_pointer(t) /\ ~is_pointer(v) /\ FamilyOf(t) = FamilyOf(v)
           THEN status = "running" /\ tmp.node = "Associate"
           ELSE status = "error"

\* How often a read, write, open or close statement gives the slot that is
\* the pos-th positional argument and the keyword kw
Given(x, pos, kw) ==
    (IF Len(x.args) >= pos THEN 1 ELSE 0)
        + Cardinality({k \in 1 .. Len(x.kwargs) : x.kwargs[k].arg = kw})

\* The type of the variable an I/O argument names is of one of tags; a star
\* has no type to check
ArgTyped(e, tags) == e.e = "Name" => Declared(e) /\ NamedType(e).type \in tags

\* Every unit the statement gives is an integer
UnitsAreIntegers(x) ==
    /\ Len(x.args) >= 1 => ArgTyped(x.args[1], IntegerTags)
    /\ \A k \in 1 .. Len(x.kwargs) :
           x.kwargs[k].arg = "unit" => ArgTyped(x.kwargs[k].value, IntegerTags)

\* C14: a read or write whose units are integers is accepted exactly when it
\* gives the unit once and the format once, each by position or by keyword;
\* a close is accepted only if it gives a unit.
C14_UnitAndFormatOnce ==
    /\ (last_op.op \in {"Read", "Write"} /\ UnitsAreIntegers(last_op.stmt)) =>
           (status = "running" <=>
                /\ Given(last_op.stmt, 1, "unit") = 1
                /\ Given(last_op.stmt, 2, "fmt") = 1)
    /\ (last_op.op = "Close" /\ status = "running") =>
           Given(last_op.stmt, 1, "unit") >= 1

\* C15: the unit of every open, close, read and write node is of integer type.
C15_UnitIsInteger ==
    (/\ status = "running"
     /\ tmp # Null
     /\ tmp.node \in {"Open", "Close", "Read", "Write"}
     /\ tmp.unit # Null) =>
        tmp.unit.type.type \in IntegerTags

\* The number of case default blocks of a select statement
Defaults(x) ==
    Cardinality({k \in 1 .. Len(x.body) : x.body[k].s = "CaseStmt_Default"})

\* C16: a select case with more than one case default is refused with
\* "Default case present more than once".
C16_OneDefault ==
    (last_op.op = "Select" /\ Defaults(last_op.stmt) > 1) =>
        /\ status = "error"
        /\ error = "Default case present more than once"

\* An assignment was lowered whose target is a variable, an array reference
\* or a member reference, and the test for an array initializer let it pass
AssignmentLowered ==
    /\ pc = "done"
    /\ visitor.name = "Assignment"
    /\ visitor.op \in {"Var", "ArrayRef", "DerivedRef"}
    /\ ~(visitor.op = "Var" /\ conversion_cand = "none")

\* C12: an assignment to a variable, an array reference or a member
\* reference passes its value through cast insertion towards the type of the
\* target: an Integer value for a Real target is wrapped in
\* ImplicitCast(IntegerToReal), an Integer value for a Character target is
\* refused, for each of the three kinds of target.
C12_ValueCastToTarget ==
    (AssignmentLowered /\ expr_type(operands[2]).type = Integer_t) =>
        /\ expr_type(left).type = Real_t =>
               /\ outcome = "node"
               /\ Converted.node = "ImplicitCast"
               /\ Converted.cast_kind = "IntegerToReal"
        /\ expr_type(left).type = Character_t => outcome = "error"

-----------------------------------------------------------------------------
(* Properties of calls and member references *)

Tables == 1 .. Len(symtab)

\* n is a name getDerivedRef_t builds: "1_" module "_" type
Mangled(n) == Len(n) > 0 /\ n[1] = "1_"

\* Some scope refers to a derived type of a module through an ExternalSymbol
\* named d, and n is the mangled name of that module and d
ThroughExternal(n) ==
    \E j \in Tables : \E d \in DOMAIN symtab[j].scope :
        LET x == symtab[j].scope[d]
        IN /\ ~Mangled(d)
           /\ x.kind = "ExternalSymbol"
           /\ x.external.kind = "DerivedType"
           /\ n = <<"1_">> \o x.module_name \o <<"_">> \o d

\* The derived type of the member x.id of the variable x.member is declared
\* in the scope the last statement stands in
LocalMemberType(x) ==
    /\ x.e = "Member"
    /\ LET v == resolve_symbol(symtab, last_op.scope, x.member)
           m == v.derived.symtab
       IN /\ v.kind = "Variable"
          /\ v.derived.kind = "DerivedType"
          /\ x.id \in DOMAIN symtab[m].scope
          /\ symtab[m].scope[x.id].derived.kind = "DerivedType"
          /\ symtab[m].scope[x.id].derived.name \in DOMAIN symtab[last_op.scope].scope

\* C20: lowering obj%member adds an ExternalSymbol "1_<module>_<type>" to the
\* current scope only when the derived type of the member is referenced
\* through an ExternalSymbol; a member access whose derived type is declared
\* locally leaves the symbol map of the current scope as it was.
C20_MangledOnlyThroughExternal ==
    /\ \A i \in Tables : \A n \in DOMAIN symtab[i].scope :
           Mangled(n) => ThroughExternal(n)
    /\ (/\ last_op.op = "Assignment"
        /\ nodes.stmt = 1
        /\ LocalMemberType(last_op.target)
        /\ last_op.value.e = "Num") =>
           DOMAIN symtab[last_op.scope].scope = DOMAIN CallPass1.symtab[last_op.scope].scope

\* The symbol the name of the last call resolves to
Called == resolve_symbol(symtab, last_op.scope, last_op.name)

\* The generic procedure behind a symbol, directly or through an
\* ExternalSymbol; NoSym if there is none
GenericOf(sym) ==
    IF sym.kind = "GenericProcedure" THEN sym
    ELSE IF sym.kind = "ExternalSymbol" /\ sym.external.kind = "GenericProcedure"
    THEN sym.external
    ELSE NoSym

\* The last statement is a call of a generic procedure whose actual
\* arguments are declared variables
GenericCall ==
    /\ last_op.op = "SubroutineCall"
    /\ GenericOf(Called) # NoSym
    /\ \A k \in 1 .. Len(last_op.args) : Declared(last_op.args[k])

\* The formal arguments of sub are as many as the actual arguments xargs and
\* of the same type families, pointer or not
MatchesByFamily(xargs, sub) ==
    /\ sub.kind = "Subroutine"
    /\ Len(xargs) = Len(sub.args)
    /\ \A k \in 1 .. Len(xargs) :
           FamilyOf(NamedType(xargs[k])) = FamilyOf(Formal(symtab, sub, k).type)

\* C17: a call of a generic procedure selects a specific that has as many
\* formal arguments as there are actual ones, of pairwise the same type
\* family (kinds are not compared, a pointer type is of the family of its
\* plain counterpart), and it is refused with "Arguments do not match"
\* exactly when no specific matches in that sense.
C17_SelectsByFamily ==
    GenericCall =>
        LET g == GenericOf(Called)
            matching == {k \in 1 .. Len(g.procs) : MatchesByFamily(last_op.args, g.procs[k])}
        IN IF matching = {}
           THEN status = "error" /\ error = "Arguments do not match"
           ELSE /\ status = "running"
                /\ tmp.node = "SubroutineCall"
                /\ \E k \in matching :
                       symbol_get_past_external(tmp.name).name = g.procs[k].name

\* The last statement is a call that was lowered
CallLowered ==
    /\ last_op.op = "SubroutineCall"
    /\ status = "running"
    /\ tmp # Null
    /\ tmp.node = "SubroutineCall"

\* The last call went through an ExternalSymbol that wraps a generic procedure
GenericExternalCall ==
    /\ CallLowered
    /\ Called.kind = "ExternalSymbol"
    /\ Called.external.kind = "GenericProcedure"

\* The names of scope i that hold an "@"
AtNames(i) ==
    {n \in DOMAIN symtab[i].scope : \E k \in 1 .. Len(n) : n[k] = "@"}

PlainCall ==
    \/ Called.kind = "Subroutine"
    \/ Called.kind = "ExternalSymbol" /\ Called.external.kind = "Subroutine"

\* C19 as stated: the call node keeps the original symbol whenever the name
\* resolved to a GenericProcedure or to an ExternalSymbol, whether that wraps
\* a generic or a plain subroutine, and has none only when the name resolved
\* directly to a Subroutine.
C19_OriginalUnlessSubroutine ==
    CallLowered => (tmp.original_name = NoSym <=> Called.kind = "Subroutine")

\* C19 amended: the call node has no original symbol when the name resolved
\* to a Subroutine or to an ExternalSymbol that wraps a plain subroutine, and
\* the symbol the name resolved to (the ExternalSymbol itself in the second
\* case) is then the symbol the node calls; it keeps the symbol the name
\* resolved to as the original symbol when that is a GenericProcedure or an
\* ExternalSymbol that wraps a generic.
C19_OriginalForGenerics ==
    CallLowered =>
        IF PlainCall
        THEN tmp.original_name = NoSym /\ tmp.name = Called
        ELSE /\ GenericOf(Called) # NoSym
             /\ tmp.original_name = Called
             /\ tmp.name # Called

\* C19 witness: call s1(i) in the program, where s1 is an ExternalSymbol for
\* the subroutine of module m3: the node calls the ExternalSymbol and has no
\* original symbol
C19_Witness ==
    /\ CallLowered
    /\ Called.kind = "ExternalSymbol"
    /\ Called.external.kind = "Subroutine"
    /\ tmp.name = Called
    /\ tmp.original_name = NoSym

-----------------------------------------------------------------------------
(* Properties of constant folding and of comparisons *)

\* A binary operator was lowered whose two operands both carry a
\* ConstantInteger value
ConstantBinOp ==
    /\ pc = "done"
    /\ visitor.name = "BinOp"
    /\ expr_value(operands[1]).vk = "int"
    /\ expr_value(operands[2]).vk = "int"

\* C22: a BinOp over +, -, *, /, ** whose operands both carry a constant
\* integer value and whose destination type is Integer carries the integer
\* result of the operator on the two values (division truncates) as its
\* folded value; a BinOp with an operand without a constant value, or with
\* another destination type, carries no folded value.
C22_FoldsConstantIntegers ==
    (pc = "done" /\ visitor.name = "BinOp") =>
        LET l == expr_value(operands[1]).n
            r == expr_value(operands[2]).n
        IN IF ConstantBinOp /\ dest_type.type = Integer_t
           THEN /\ outcome = "node"
                /\ asr.value.vk = "int"
                /\ ~FoldUndefined(visitor.op, l, r) =>
                       asr.value.n = FoldResult(visitor.op, l, r)
           ELSE outcome = "node" => asr.value = NoValue

\* The type families a comparison with operator op admits
ComparableFamilies(op) ==
    {Integer_t, Real_t} \cup (IF op \in {"Eq", "NotEq"} THEN {Complex_t} ELSE {})

\* C24: a comparison is accepted only when its operands are Integer or Real,
\* or Complex under == and /=; every other combination of operand types and
\* operator is refused.
C24_CompareOperandTypes ==
    (pc = "done" /\ visitor.name = "Compare" /\ outcome = "node") =>
        \A k \in {1, 2} :
            FamilyOf(expr_type(operands[k])) \in ComparableFamilies(visitor.op)

\* C30: folding is total: lowering a BinOp over two constant integer values,
\* a zero right operand of / and a negative right operand of ** included,
\* ends with a node or with a semantic error.
C30_FoldingIsTotal ==
    ConstantBinOp => outcome \in {"node", "error"}

-----------------------------------------------------------------------------
(* Properties of member references *)

\* The derived type of the variable a member reference x starts from
TypeOfObject(x) ==
    symbol_get_past_external(resolve_symbol(symtab, last_op.scope, x.member).derived)

\* The last statement assigns to obj%name where obj is a declared variable of
\* a derived type
MemberAssignment ==
    /\ last_op.op = "Assignment"
    /\ last_op.target.e = "Member"
    /\ resolve_symbol(symtab, last_op.scope, last_op.target.member).kind = "Variable"
    /\ TypeOfObject(last_op.target).kind = "DerivedType"

\* C21: the member of every DerivedRef is an entry of the scope of the
\* derived type itself: obj%name with a name that is not declared in the
\* type, declared in a scope around the type or not, is refused.
C21_MemberOfTypeScope ==
    (/\ MemberAssignment
     /\ last_op.target.id \notin
            DOMAIN symtab[TypeOfObject(last_op.target).symtab].scope) =>
        status = "error"

-----------------------------------------------------------------------------
(* Properties of declarations *)

\* A declaration with a type has just created its first entity
TypedDeclaration ==
    /\ status = "running"
    /\ last_op.op = "Declaration"
    /\ last_op.decl.vartype # "none"
    /\ Has(symtab, last_op.scope, last_op.name)

DeclaredVariable == symtab[last_op.scope].scope[last_op.name]

HasAttribute(x, a) == \E i \in 1 .. Len(x.attributes) : x.attributes[i].attr = a

\* The family of each type a declaration can name
FamilyOfVartype(vartype) ==
    CASE vartype = "Integer" -> Integer_t
      [] vartype = "Real" -> Real_t
      [] vartype = "Complex" -> Complex_t
      [] vartype = "Character" -> Character_t
      [] vartype = "Logical" -> Logical_t
      [] vartype = "Type" -> Derived_t

\* C23: a declaration of any base type that carries the pointer attribute
\* creates a variable of the pointer variant of the family of that type, and
\* one without the attribute creates a variable of the plain variant
C23_PointerPicksVariant ==
    TypedDeclaration =>
        DeclaredVariable.type.type =
            IF HasAttribute(last_op.decl, "Pointer")
            THEN FamilyOfVartype(last_op.decl.vartype) + (num_types \div 2)
            ELSE FamilyOfVartype(last_op.decl.vartype)

-----------------------------------------------------------------------------
(* Properties of units *)

UnitEnds == {"Module_end", "Program_end", "Subroutine_end", "Function_end"}

\* A unit whose last declaration is a named interface block ends, and the
\* analysis goes on
UnitOfInterfaceEnds ==
    /\ last_op.op = "Interface"
    /\ last_op.scope = current_scope
    /\ last_op'.op \in UnitEnds
    /\ status' = "running"

ProcNames(g) == [i \in 1 .. Len(g.procs) |-> g.procs[i].name]

\* The scope of the unit that ends holds the generic procedure of the
\* interface block, over the procedures the block names, in their order
InterfaceMaterialized ==
    /\ Has(symtab', current_scope, last_op.name)
    /\ symtab'[current_scope].scope[last_op.name].kind = "GenericProcedure"
    /\ ProcNames(symtab'[current_scope].scope[last_op.name]) =
           generic_procedures[last_op.name]

\* C25: when a module, a main program or a procedure that declares a named
\* interface block has been visited, its scope holds a GenericProcedure
\* under the name of the interface whose procedures are the named ones in
\* the order of their declaration
C25_InterfaceMaterialized == [][UnitOfInterfaceEnds => InterfaceMaterialized]_vars

\* A derived type has been visited whose name the enclosing scope, which is
\* not the global scope, already held
DuplicateDerivedType ==
    /\ last_op.op = "DerivedType_end"
    /\ last_op.old # NoSym
    /\ symtab[last_op.scope].parent # 0

\* C26: a derived type whose name is already a symbol of the enclosing
\* non-root scope is refused with an error and the symbol that was there
\* stays in place
C26_DuplicateTypeRefused ==
    DuplicateDerivedType =>
        /\ status = "error"
        /\ symtab[last_op.scope].scope[last_op.name] = last_op.old

\* The visit of a module or of a main program has just started
UnitStarts == status = "running" /\ last_op.op \in {"Module_begin", "Program_begin"}

\* C27: at the start of each module and main program the default access is
\* public, no name has an access or presence assigned by an attribute
\* statement, and no type-bound procedure is waiting to be added: nothing
\* that a unit visited before has declared is in effect
C27_UnitsStartClean ==
    UnitStarts =>
        /\ dflt_access = "Public"
        /\ assgnd_access = EmptyMap
        /\ assgnd_presence = EmptyMap
        /\ class_procedures = EmptyMap

\* The name just declared is a dummy argument of the procedure in whose
\* scope it was declared
DeclaredDummy ==
    /\ frames # <<>>
    /\ Top.kind \in {"Subroutine", "Function"}
    /\ present(Top.info.args, last_op.name)

\* C28: a variable declared with a type and without an intent attribute has
\* intent unspecified when its name is a dummy argument of the procedure in
\* whose scope it is declared, and intent local otherwise, wherever the
\* declaration stands
C28_IntentOfUndeclaredIntent ==
    (TypedDeclaration /\ ~HasAttribute(last_op.decl, "Intent")) =>
        DeclaredVariable.intent = IF DeclaredDummy THEN "Unspecified" ELSE "Local"

-----------------------------------------------------------------------------
(* Properties of the global scope *)

\* What the global scope can have held when ast_to_asr was called.  The
\* analysis never removes a symbol and never creates one with the
\* Interactive ABI, so the scope is one of these only if it is unchanged.
GivenGlobalScopes == {Fresh[RootScope].scope, Interactive[RootScope].scope}

\* C29: when the analysis has stopped with an error, the global scope that
\* was handed to it holds the symbols it held before the call and no other
C29_ErrorLeavesGlobalScope ==
    status = "error" => symtab[RootScope].scope \in GivenGlobalScopes

====
